---------------------------- MODULE Spec2Model ----------------------------
(***************************************************************************)
(* Verification model of the concurrent_queue repository: the SPSC queue   *)
(* with its node cache, the MPSC queue, the unbounded MPMC queue, the      *)
(* bounded MPMC ring, the word-based and the sequence-based proxy          *)
(* collectors, the eventcount, and thread_func of the unbounded MPMC       *)
(* queue with its consumers on one eventcount.  Every atomic access of     *)
(* the source is                                                           *)
(* one step of the thread that makes it; accesses to memory only that      *)
(* thread touches are folded into the neighbouring step.  Each component   *)
(* has a specification of its own (SpecSPSC, SpecMPSC, SpecMPMC,           *)
(* SpecBounded, SpecWordProxy, SpecSeqProxy, SpecEventCount,               *)
(* SpecThreadFunc) over the                                                *)
(* shared variable list; the variables of the other components stay at     *)
(* their initial values.                                                   *)
(*                                                                         *)
(* Steps interleave sequentially consistently.  mpmc_queue::dequeue        *)
(* passes memory_order_acq_rel to load(), which the standard does not      *)
(* allow; the loads are taken as the compiler emits them, as seq_cst       *)
(* loads.  The position counters of the bounded queue are size_t; within   *)
(* the bounds here they stay far below 2^63, so they are modelled as       *)
(* naturals, and so are the unsigned counts of the word-based collector,   *)
(* whose differences are taken as integers.                                *)
(***************************************************************************)
EXTENDS Integers, Sequences, FiniteSets, TLC

\* ------------------------------------------------------------------ bounds
\* enqueue calls the SPSC producer makes
SpMaxEnq == 4
\* the SPSC producer passes values 1..SpNumVals
SpNumVals == 2

\* MPSC producer threads (PRODUCERS) and enqueues per producer (ITERS)
MpProducers == 2
MpIters == 2

\* unbounded MPMC: producer threads, consumer threads and enqueue calls in
\* all (the k-th call passes the value k, so a value names its call)
MqProducers == 2
MqConsumers == 2
MqMaxEnq == 2

\* bounded MPMC: threads (each may enqueue and dequeue, as thread_func's do)
\* and enqueue calls in all (the k-th call passes the value k)
BqThreads == 2
BqMaxEnq == 3

\* word-based proxy collector: threads, nodes handed to collect(c, n), and
\* references taken on one collector before a quiescence is begun
WpThreads == 2
WpMaxNodes == 3
WpMaxRefs == 2

\* sequence-based proxy collector: threads, defer_recycle calls, and acquires
\* on one collector while it is tail_
PxThreads == 2
PxMaxDefer == 3
PxMaxRefs == 2

\* eventcount: producers and enqueue calls of each (PRODUCERS, ITERS)
EcProducers == 2
EcIters == 2

\* thread_func of the unbounded MPMC queue: producer threads (PRODUCERS),
\* consumer threads (CONSUMERS) and enqueue calls of each producer (ITERS)
TfProducers == 2
TfConsumers == 2
TfIters == 1

\* the null pointer; heap nodes are numbered from 1
Null == 0

IsPrefix(s, t) == /\ Len(s) <= Len(t)
                  /\ \A i \in 1..Len(s) : s[i] = t[i]

VARIABLES
  \* ---- spsc_queue<int>
  spsc_next,       \* node -> node::next_
  spsc_value,      \* node -> node::value_
  spsc_nodes,      \* number of nodes obtained from operator new
  spsc_head_,      \* spsc_queue::head_
  spsc_first_,     \* spsc_queue::first_
  spsc_tail_copy_, \* spsc_queue::tail_copy_
  spsc_tail_,      \* spsc_queue::tail_
  spsc_ppc,        \* producer's position in enqueue / alloc_node
  spsc_pv,         \* enqueue's argument v
  spsc_pn,         \* enqueue's local n
  spsc_cpc,        \* consumer's position in dequeue
  spsc_ctail,      \* dequeue's local tail
  spsc_cnext,      \* dequeue's local tail_next
  spsc_out,        \* the caller's variable bound to dequeue's T &v
  spsc_ret,        \* what the consumer's last finished dequeue returned
  spsc_enq,        \* history: the values passed to enqueue, in call order
  spsc_deq,        \* history: the values successful dequeues returned
  spsc_peak,       \* history: the most enqueue calls begun beyond the
                   \* successful dequeues finished, over time
  spsc_alive,      \* ~spsc_queue() has not been entered
  spsc_dn,         \* ~spsc_queue's local n (null outside its loop)
  spsc_deleted,    \* node -> times delete was applied to it
  \* ---- mpsc_queue<int> and the threads of its thread_func
  mpsc_next,       \* node -> node::next_
  mpsc_value,      \* node -> node::value_
  mpsc_nodes,      \* number of nodes obtained from operator new
  mpsc_freed,      \* bag of nodes passed to free() or delete: node ->
                   \* times released
  mpsc_alive,      \* the queue's destructor has not run
  mpsc_head_,      \* mpsc_queue::head_
  mpsc_tail_,      \* mpsc_queue::tail_
  mpsc_ppc,        \* producer -> position in enqueue
  mpsc_pi,         \* producer -> enqueue calls it has finished
  mpsc_pn,         \* producer -> enqueue's local n
  mpsc_pp,         \* producer -> enqueue's local p
  mpsc_cpc,        \* consumer's position in dequeue
  mpsc_ct,         \* dequeue's local t
  mpsc_cn,         \* dequeue's local n
  mpsc_out,        \* the caller's variable bound to dequeue's T& value
  mpsc_ret,        \* what the consumer's last finished dequeue returned
  mpsc_xchg,       \* history: the enqueued values in head_-exchange order
  mpsc_deq,        \* history: the values successful dequeues returned
  mpsc_hidden,     \* history: a dequeue found next_ null while the value of
                   \* an enqueue call that had returned was still queued
  \* ---- mpmc_queue<int>
  mpmc_next,       \* node -> node::next_
  mpmc_value,      \* node -> node::value_
  mpmc_nodes,      \* number of nodes obtained from operator new
  mpmc_head_,      \* mpmc_queue::head_
  mpmc_tail_,      \* mpmc_queue::tail_
  mpmc_ppc,        \* producer -> position in enqueue
  mpmc_pn,         \* producer -> enqueue's local n
  mpmc_pp,         \* producer -> enqueue's local p
  mpmc_cpc,        \* consumer -> position in dequeue
  mpmc_ct,         \* consumer -> dequeue's local t
  mpmc_cn,         \* consumer -> dequeue's local n
  mpmc_out,        \* consumer -> the caller's variable bound to T& value
  mpmc_out0,       \* consumer -> what that variable held when dequeue was called
  mpmc_ret,        \* consumer -> what its last finished dequeue returned
  mpmc_pinned,     \* consumer -> it holds a proxy-collector reference
  mpmc_posted,     \* nodes handed to the proxy collector as deferred-free
  mpmc_retired,    \* history: old tail nodes unlinked by a successful tail CAS
  mpmc_enqs,       \* history: number of enqueue calls made
  mpmc_xchg,       \* history: the nodes in head_-exchange order
  mpmc_won,        \* history: per successful tail CAS, in order, the node
                   \* made the new tail and the value returned
  \* ---- mpmc_bounded_queue<int, buffer_size>
  bq_sequence,     \* cell index -> cell_t::sequence_
  bq_data,         \* cell index -> cell_t::data_
  enqueue_pos_,    \* mpmc_bounded_queue::enqueue_pos_
  dequeue_pos_,    \* mpmc_bounded_queue::dequeue_pos_
  bq_pc,           \* thread -> position in enqueue / dequeue
  bq_pos,          \* thread -> the call's local pos (0 outside a call)
  bq_arg,          \* thread -> enqueue's argument data (0 outside a call)
  bq_out,          \* thread -> the caller's variable bound to dequeue's T& data
  bq_ret,          \* thread -> what its last finished call returned
  bq_calls,        \* history: number of enqueue calls made
  bq_enq,          \* history: per successful CAS on enqueue_pos_, in order,
                   \* the ticket won and the value the call stores
  bq_taken,        \* history: per successful CAS on dequeue_pos_, in order,
                   \* the ticket won
  bq_deq,          \* history: per dequeue that returned true, its ticket
                   \* and the value it returned
  bq_seen,         \* history: thread -> at some moment of its current (or
                   \* last) call enqueue_pos_ - dequeue_pos_ was buffer_size
                   \* (an enqueue call) or 0 (a dequeue call)
  bq_quiet,        \* history: thread -> its current (or last) call is an
                   \* enqueue invoked with buffer_size items pending, and
                   \* no dequeue has been in progress since the invocation
  \* ---- proxy<DEFER, 4>, the word-based collector
  wp_current_,     \* proxy::current_
  wp_quiesce_,     \* proxy::quiesce_
  wp_defer_,       \* proxy::defer_
  wp_cdefer_,      \* collector index -> collector::defer_
  wp_defer_count_, \* collector index -> collector::defer_count_
  wp_count_,       \* collector index -> collector::count_
  wp_defer_next_,  \* node -> node::defer_next_
  wp_linked,       \* node -> its defer_next_ has been assigned
  wp_nodes,        \* number of nodes handed to collect(c, n)
  wp_deleted,      \* node -> times delete was applied to it
  wp_wild,         \* prv_destroy followed a defer_next_ never assigned
  wp_alive,        \* the proxy's destructor has not run
  wp_pc,           \* thread -> position in the call it is inside
  wp_pinned,       \* thread -> it holds a collector from acquire
  \* (a local is 0 or null outside the part of a call that uses it)
  wp_c,            \* thread -> index of the collector it holds
  wp_q,            \* thread -> index of the collector it completes
  wp_old,          \* thread -> prv_quiesce_begin's local old
  wp_n,            \* thread -> local n of collect(c, n) / of completion
  wp_prev,         \* thread -> collect(c, n)'s local prev
  wp_then,         \* thread -> where sync continues after release
  wp_lag,          \* history: thread -> times current_ advanced since its
                   \* acquire, counted up to collector_size_mask_
  wp_nlag,         \* history: node -> times current_ advanced since the
                   \* collector it went to was current, counted likewise
  wp_guard,        \* history: node -> threads that held a collector when
                   \* collect(c, n) was called and have not released since
  wp_by,           \* history: node -> what deleted it last
  wp_home,         \* history: node -> index of the collector it was
                   \* handed to, until that collector completes
  wp_stage,        \* history: node -> 0 until the collector it was
                   \* handed to completes, then 1, then 2 once a later
                   \* completion has swapped the lists; 0 again once a
                   \* quiescence has deleted the node
  \* ---- proxy (sequence-based collector)
  px_tail_,        \* proxy::tail_: [c_, sequence_]
  px_free_head_,   \* proxy::free_head_: [c_, sequence_]
  px_free_tail_,   \* proxy::free_tail_.c_ (its sequence_ is never changed)
  px_count_,       \* collector -> collector::count_
  px_next_,        \* collector -> collector::next_.c_
  px_defer_free,   \* collector -> collector::defer_free (a callback or Null)
  px_heap,         \* number of collectors obtained from operator new
  px_wild,         \* a null collector pointer was dereferenced
  px_pc,           \* thread -> position in the call it is inside
  px_op,           \* thread -> "release" until release()'s count step is done
  px_held,         \* thread -> collector its acquire returned, or Null
  px_f,            \* thread -> callback of the defer_recycle it is inside
  px_c,            \* thread -> c of alloc_collector / defer_recycle
  px_old_free,     \* thread -> alloc_collector's old_free
  px_new_free,     \* thread -> alloc_collector's new_free.c_
  px_current,      \* thread -> release_adjust's current
  px_adjusted,     \* thread -> release_adjust's adjusted_count
  px_nextc,        \* thread -> release_adjust's next
  px_ft,           \* thread -> release_adjust's free_tail.c_
  px_ft_next,      \* thread -> release_adjust's free_tail_next.c_
  px_started,      \* history: number of defer_recycle calls started
  px_invoked,      \* history: callback -> times it was invoked
  px_order,        \* history: callbacks in the order they were invoked
  px_swaps,        \* history: callbacks in the order of their tail swaps
  px_guard,        \* history: callback -> readers that acquired before its
                   \* tail swap and have not released
  px_cb,           \* history: collector -> callback stored in it since reset
  px_zero,         \* history: collectors that dropped to zero, until reused
  px_reused,       \* history: collectors taken from the free list
  \* ---- eventcount with the producers and the consumer of thread_func
  ec_waiting,      \* eventcount::waiting
  ec_semaphore,    \* eventcount::semaphore: its count
  ec_links,        \* enqueues in the order of their exchange on head_:
                   \* TRUE once the store to next_ is done
  ec_pos,          \* producer -> place in ec_links of the enqueue it is in
  ec_sent,         \* producer -> enqueue calls made
  ec_ppc,          \* producer -> position in enqueue / notify
  ec_cpc,          \* consumer: position in eventcount::out
  ec_count,        \* count: items the consumer dequeued
  \* ---- thread_func of mpmc_unbounded_queue.cpp
  tf_waiting,      \* ec: eventcount::waiting
  tf_semaphore,    \* ec: eventcount::semaphore: its count
  tf_links,        \* queue: enqueues in the order of their exchange on
                   \* head_: value, and linked once next_ is stored
  tf_tail_,        \* queue: nodes tail_ has been moved over
  tf_count,        \* count
  tf_pc,           \* thread -> position in thread_func
  tf_i,            \* thread -> thread_func's local i
  tf_pos,          \* thread -> place in tf_links of the enqueue it is in
  tf_t,            \* thread -> dequeue's local t, as nodes before it
  tf_prepared,     \* thread -> between prepare_wait and cancel/commit_wait
  tf_last          \* thread -> its fetch_add returned 1

spscVars == <<spsc_next, spsc_value, spsc_nodes, spsc_head_, spsc_first_,
              spsc_tail_copy_, spsc_tail_, spsc_ppc, spsc_pv, spsc_pn,
              spsc_cpc, spsc_ctail, spsc_cnext, spsc_out, spsc_ret,
              spsc_enq, spsc_deq, spsc_peak, spsc_alive, spsc_dn,
              spsc_deleted>>

mpscVars == <<mpsc_next, mpsc_value, mpsc_nodes, mpsc_freed, mpsc_alive,
              mpsc_head_, mpsc_tail_, mpsc_ppc, mpsc_pi, mpsc_pn, mpsc_pp,
              mpsc_cpc, mpsc_ct, mpsc_cn, mpsc_out, mpsc_ret, mpsc_xchg,
              mpsc_deq, mpsc_hidden>>

mpmcVars == <<mpmc_next, mpmc_value, mpmc_nodes, mpmc_head_, mpmc_tail_,
              mpmc_ppc, mpmc_pn, mpmc_pp, mpmc_cpc, mpmc_ct, mpmc_cn,
              mpmc_out, mpmc_out0, mpmc_ret, mpmc_pinned, mpmc_posted,
              mpmc_retired, mpmc_enqs, mpmc_xchg, mpmc_won>>

bqVars == <<bq_sequence, bq_data, enqueue_pos_, dequeue_pos_, bq_pc, bq_pos,
            bq_arg, bq_out, bq_ret, bq_calls, bq_enq, bq_taken, bq_deq,
            bq_seen, bq_quiet>>

wpVars == <<wp_current_, wp_quiesce_, wp_defer_, wp_cdefer_, wp_defer_count_,
            wp_count_, wp_defer_next_, wp_linked, wp_nodes, wp_deleted,
            wp_wild, wp_alive, wp_pc, wp_pinned, wp_c, wp_q, wp_old, wp_n,
            wp_prev, wp_then, wp_lag, wp_nlag, wp_guard, wp_by, wp_home,
            wp_stage>>

pxVars == <<px_tail_, px_free_head_, px_free_tail_, px_count_, px_next_,
            px_defer_free, px_heap, px_wild, px_pc, px_op, px_held, px_f,
            px_c, px_old_free, px_new_free, px_current, px_adjusted,
            px_nextc, px_ft, px_ft_next, px_started, px_invoked, px_order,
            px_swaps, px_guard, px_cb, px_zero, px_reused>>

ecVars == <<ec_waiting, ec_semaphore, ec_links, ec_pos, ec_sent, ec_ppc,
            ec_cpc, ec_count>>

tfVars == <<tf_waiting, tf_semaphore, tf_links, tf_tail_, tf_count, tf_pc,
            tf_i, tf_pos, tf_t, tf_prepared, tf_last>>

vars == <<spscVars, mpscVars, mpmcVars, bqVars, wpVars, pxVars, ecVars,
          tfVars>>

\* ================================================================== SPSC
SpscNodeIds == 1..(SpMaxEnq + 1)
SpscValues == 1..SpNumVals

\* spsc_queue(): one node holding 0, shared by all four pointers
SpscInit ==
  /\ spsc_next = [n \in SpscNodeIds |-> Null]
  /\ spsc_value = [n \in SpscNodeIds |-> 0]
  /\ spsc_nodes = 1
  /\ spsc_head_ = 1
  /\ spsc_first_ = 1
  /\ spsc_tail_copy_ = 1
  /\ spsc_tail_ = 1
  /\ spsc_ppc = "idle"
  /\ spsc_pv = 0
  /\ spsc_pn = Null
  /\ spsc_cpc = "idle"
  /\ spsc_ctail = Null
  /\ spsc_cnext = Null
  /\ spsc_out = 0
  /\ spsc_ret = "none"
  /\ spsc_enq = <<>>
  /\ spsc_deq = <<>>
  /\ spsc_peak = 0
  /\ spsc_alive = TRUE
  /\ spsc_dn = Null
  /\ spsc_deleted = [n \in SpscNodeIds |-> 0]

spscProducerVars == <<spsc_nodes, spsc_head_, spsc_first_, spsc_tail_copy_,
                      spsc_ppc, spsc_pv, spsc_pn, spsc_enq, spsc_peak>>
spscConsumerVars == <<spsc_tail_, spsc_cpc, spsc_ctail, spsc_cnext, spsc_out,
                      spsc_ret, spsc_deq>>
spscDestructorVars == <<spsc_alive, spsc_dn, spsc_deleted>>

\* the producer calls enqueue(v)
SpscEnqueueCall(v) ==
  /\ spsc_alive
  /\ spsc_ppc = "idle"
  /\ Len(spsc_enq) < SpMaxEnq
  /\ spsc_ppc' = "alloc"
  /\ spsc_pv' = v
  /\ spsc_enq' = Append(spsc_enq, v)
  /\ spsc_peak' = IF Len(spsc_enq) + 1 - Len(spsc_deq) > spsc_peak
                    THEN Len(spsc_enq) + 1 - Len(spsc_deq) ELSE spsc_peak
  /\ UNCHANGED <<spsc_next, spsc_value, spsc_nodes, spsc_head_, spsc_first_,
                 spsc_tail_copy_, spsc_pn, spscConsumerVars,
                 spscDestructorVars>>

\* a faulty test that takes any node at first_ for a retired one
SpscCacheAny(first, tail_copy) == first # Null

\* a faulty test that never finds a retired node
SpscCacheNever(first, tail_copy) == FALSE

\* alloc_node's test for a reusable node at the front of the cache
SpscCacheHas(first, tail_copy) == first # tail_copy

\* alloc_node: take the node first_ out of the cache and store v in it
SpscReuse ==
  /\ spsc_pn' = spsc_first_
  /\ spsc_value' = [spsc_value EXCEPT ![spsc_first_] = spsc_pv]
  /\ spsc_first_' = spsc_next[spsc_first_]
  /\ spsc_ppc' = "clear"
  /\ UNCHANGED <<spsc_next, spsc_nodes, spsc_head_, spsc_pv, spsc_enq,
                 spsc_peak, spscConsumerVars,
                 spscDestructorVars>>

\* alloc_node, first attempt: first_ against the producer's tail_copy_
SpscAllocCached ==
  /\ spsc_ppc = "alloc"
  /\ SpscCacheHas(spsc_first_, spsc_tail_copy_)
  /\ SpscReuse
  /\ UNCHANGED spsc_tail_copy_

\* alloc_node: the cache looks empty, refresh tail_copy_ from tail_
SpscAllocReload ==
  /\ spsc_ppc = "alloc"
  /\ ~SpscCacheHas(spsc_first_, spsc_tail_copy_)
  /\ spsc_tail_copy_' = spsc_tail_
  /\ spsc_ppc' = "alloc2"
  /\ UNCHANGED <<spsc_next, spsc_value, spsc_nodes, spsc_head_, spsc_first_,
                 spsc_pv, spsc_pn, spsc_enq, spsc_peak, spscConsumerVars,
                 spscDestructorVars>>

\* alloc_node, second attempt after the refresh
SpscAllocReloaded ==
  /\ spsc_ppc = "alloc2"
  /\ SpscCacheHas(spsc_first_, spsc_tail_copy_)
  /\ SpscReuse
  /\ UNCHANGED spsc_tail_copy_

\* alloc_node: no retired node, new node(v)
SpscAllocNew ==
  /\ spsc_ppc = "alloc2"
  /\ ~SpscCacheHas(spsc_first_, spsc_tail_copy_)
  /\ spsc_nodes' = spsc_nodes + 1
  /\ spsc_pn' = spsc_nodes + 1
  /\ spsc_value' = [spsc_value EXCEPT ![spsc_nodes + 1] = spsc_pv]
  /\ spsc_next' = [spsc_next EXCEPT ![spsc_nodes + 1] = Null]
  /\ spsc_ppc' = "clear"
  /\ UNCHANGED <<spsc_head_, spsc_first_, spsc_tail_copy_, spsc_pv, spsc_enq,
                 spsc_peak, spscConsumerVars,
                 spscDestructorVars>>

\* enqueue: n->next_ = nullptr
SpscEnqClear ==
  /\ spsc_ppc = "clear"
  /\ spsc_next' = [spsc_next EXCEPT ![spsc_pn] = Null]
  /\ spsc_ppc' = "link"
  /\ UNCHANGED <<spsc_value, spsc_nodes, spsc_head_, spsc_first_,
                 spsc_tail_copy_, spsc_pv, spsc_pn, spsc_enq, spsc_peak,
                 spscConsumerVars,
                 spscDestructorVars>>

\* enqueue: head->next_.store(n, release); head_ = n
SpscEnqLink ==
  /\ spsc_ppc = "link"
  /\ spsc_next' = [spsc_next EXCEPT ![spsc_head_] = spsc_pn]
  /\ spsc_head_' = spsc_pn
  /\ spsc_ppc' = "idle"
  /\ UNCHANGED <<spsc_value, spsc_nodes, spsc_first_, spsc_tail_copy_,
                 spsc_pv, spsc_pn, spsc_enq, spsc_peak, spscConsumerVars,
                 spscDestructorVars>>

\* a faulty test that takes every link for null
SpscDeqFoundNever(tail_next) == FALSE

\* dequeue: if (tail_next)
SpscDeqFound(tail_next) == tail_next # Null

\* dequeue: tail = tail_; tail_next = tail->next_ (consume); a null link
\* returns false at once
SpscDeqLoad ==
  /\ spsc_alive
  /\ spsc_cpc = "idle"
  /\ spsc_ctail' = spsc_tail_
  /\ spsc_cnext' = spsc_next[spsc_tail_]
  /\ IF SpscDeqFound(spsc_next[spsc_tail_])
       THEN /\ spsc_cpc' = "value"
            /\ UNCHANGED spsc_ret
       ELSE /\ spsc_cpc' = "idle"
            /\ spsc_ret' = "false"
  /\ UNCHANGED <<spsc_next, spsc_value, spsc_tail_, spsc_out, spsc_deq,
                 spscProducerVars,
                 spscDestructorVars>>

\* a faulty dequeue that copies the value of the dummy node tail_
SpscDeqSourceStale(tail, tail_next) == tail

\* the node whose value_ dequeue copies out
SpscDeqSource(tail, tail_next) == tail_next

\* dequeue: v = tail_next->value_
SpscDeqValue ==
  /\ spsc_cpc = "value"
  /\ spsc_out' = spsc_value[SpscDeqSource(spsc_ctail, spsc_cnext)]
  /\ spsc_cpc' = "store"
  /\ UNCHANGED <<spsc_next, spsc_value, spsc_tail_, spsc_ctail, spsc_cnext,
                 spsc_ret, spsc_deq, spscProducerVars,
                 spscDestructorVars>>

\* dequeue: tail_.store(tail_next, release); return true
SpscDeqStore ==
  /\ spsc_cpc = "store"
  /\ spsc_tail_' = spsc_cnext
  /\ spsc_cpc' = "idle"
  /\ spsc_ret' = "true"
  /\ spsc_deq' = Append(spsc_deq, spsc_out)
  /\ UNCHANGED <<spsc_next, spsc_value, spsc_ctail, spsc_cnext, spsc_out,
                 spscProducerVars,
                 spscDestructorVars>>

\* a faulty destructor that starts its walk at the consumer's end
SpscWalkFromTail(first, tail) == tail

\* ~spsc_queue: node *n = first_
SpscWalkFrom(first, tail) == first

\* ~spsc_queue() is entered, no enqueue or dequeue being in progress
SpscDestructCall ==
  /\ spsc_alive
  /\ spsc_ppc = "idle"
  /\ spsc_cpc = "idle"
  /\ spsc_alive' = FALSE
  /\ spsc_dn' = SpscWalkFrom(spsc_first_, spsc_tail_)
  /\ UNCHANGED <<spsc_next, spsc_value, spsc_deleted, spscProducerVars,
                 spscConsumerVars>>

\* ~spsc_queue(), one round of the do-while: next = n->next_; delete n;
\* n = next; the loop ends when n is null
SpscDestructStep ==
  /\ ~spsc_alive
  /\ spsc_dn # Null
  /\ spsc_deleted' = [spsc_deleted EXCEPT ![spsc_dn] = @ + 1]
  /\ spsc_dn' = spsc_next[spsc_dn]
  /\ UNCHANGED <<spsc_next, spsc_value, spsc_alive, spscProducerVars,
                 spscConsumerVars>>

\* the other queues are untouched by the SPSC queue's steps
SpscFrame ==
  UNCHANGED <<mpscVars, mpmcVars, bqVars, wpVars, pxVars, ecVars, tfVars>>

SpscNext ==
  \/ SpscFrame /\ \E v \in SpscValues : SpscEnqueueCall(v)
  \/ SpscFrame /\ SpscAllocCached
  \/ SpscFrame /\ SpscAllocReload
  \/ SpscFrame /\ SpscAllocReloaded
  \/ SpscFrame /\ SpscAllocNew
  \/ SpscFrame /\ SpscEnqClear
  \/ SpscFrame /\ SpscEnqLink
  \/ SpscFrame /\ SpscDeqLoad
  \/ SpscFrame /\ SpscDeqValue
  \/ SpscFrame /\ SpscDeqStore
  \/ SpscFrame /\ SpscDestructCall
  \/ SpscFrame /\ SpscDestructStep

\* ================================================================== MPSC
MpscProducerIds == 0..(MpProducers - 1)
MpscNodeIds == 1..(MpProducers * MpIters + 1)

\* mpsc_queue::stub_: the node the constructor allocates, held by the
\* unique_ptr for the queue's whole life
stub_ == 1

\* mpsc_queue(): stub_(new node(0)), head_ and tail_ both at the stub
MpscInit ==
  /\ mpsc_next = [n \in MpscNodeIds |-> Null]
  /\ mpsc_value = [n \in MpscNodeIds |-> 0]
  /\ mpsc_nodes = 1
  /\ mpsc_freed = [n \in MpscNodeIds |-> 0]
  /\ mpsc_alive = TRUE
  /\ mpsc_head_ = stub_
  /\ mpsc_tail_ = stub_
  /\ mpsc_ppc = [p \in MpscProducerIds |-> "idle"]
  /\ mpsc_pi = [p \in MpscProducerIds |-> 0]
  /\ mpsc_pn = [p \in MpscProducerIds |-> Null]
  /\ mpsc_pp = [p \in MpscProducerIds |-> Null]
  /\ mpsc_cpc = "idle"
  /\ mpsc_ct = Null
  /\ mpsc_cn = Null
  /\ mpsc_out = 0
  /\ mpsc_ret = "none"
  /\ mpsc_xchg = <<>>
  /\ mpsc_deq = <<>>
  /\ mpsc_hidden = FALSE

mpscProducerVars == <<mpsc_nodes, mpsc_head_, mpsc_ppc, mpsc_pi, mpsc_pn,
                      mpsc_pp, mpsc_xchg>>
mpscConsumerVars == <<mpsc_freed, mpsc_alive, mpsc_tail_, mpsc_cpc, mpsc_ct,
                      mpsc_cn, mpsc_out, mpsc_ret, mpsc_deq, mpsc_hidden>>

\* thread_func: producer tidx passes i = tidx * ITERS + (calls finished)
MpscLoopValue(p) == p * MpIters + mpsc_pi[p]

\* the values of the enqueue calls that have returned
MpscReturned ==
  UNION {(p * MpIters)..(p * MpIters + mpsc_pi[p] - 1) : p \in MpscProducerIds}

\* the exchanged values no dequeue has returned yet, in exchange order
MpscPending == SubSeq(mpsc_xchg, Len(mpsc_deq) + 1, Len(mpsc_xchg))

MpscRange(s) == {s[k] : k \in 1..Len(s)}

\* a faulty exchange that hands back the node just installed
MpscExchangedNew(old_head, n) == n

\* what head_.exchange(n) returns: the head it replaced
MpscExchanged(old_head, n) == old_head

\* enqueue: n = new node(value); p = head_.exchange(n, acq_rel)
MpscEnqExchange(p) ==
  /\ mpsc_alive
  /\ mpsc_ppc[p] = "idle"
  /\ mpsc_pi[p] < MpIters
  /\ mpsc_nodes' = mpsc_nodes + 1
  /\ mpsc_value' = [mpsc_value EXCEPT ![mpsc_nodes + 1] = MpscLoopValue(p)]
  /\ mpsc_next' = [mpsc_next EXCEPT ![mpsc_nodes + 1] = Null]
  /\ mpsc_pn' = [mpsc_pn EXCEPT ![p] = mpsc_nodes + 1]
  /\ mpsc_pp' = [mpsc_pp EXCEPT
       ![p] = MpscExchanged(mpsc_head_, mpsc_nodes + 1)]
  /\ mpsc_head_' = mpsc_nodes + 1
  /\ mpsc_ppc' = [mpsc_ppc EXCEPT ![p] = "link"]
  /\ mpsc_xchg' = Append(mpsc_xchg, MpscLoopValue(p))
  /\ UNCHANGED <<mpsc_pi, mpscConsumerVars>>

\* enqueue: p->next_.store(n, seq_cst); the call returns
MpscEnqLink(p) ==
  /\ mpsc_ppc[p] = "link"
  /\ mpsc_next' = [mpsc_next EXCEPT ![mpsc_pp[p]] = mpsc_pn[p]]
  /\ mpsc_ppc' = [mpsc_ppc EXCEPT ![p] = "idle"]
  /\ mpsc_pi' = [mpsc_pi EXCEPT ![p] = @ + 1]
  /\ UNCHANGED <<mpsc_value, mpsc_nodes, mpsc_head_, mpsc_pn, mpsc_pp,
                 mpsc_xchg, mpscConsumerVars>>

\* dequeue: t = tail_; n = t->next_.load(acquire); n == nullptr goes to
\* return false
MpscDeqLoad ==
  /\ mpsc_alive
  /\ mpsc_cpc = "idle"
  /\ mpsc_ct' = mpsc_tail_
  /\ mpsc_cn' = mpsc_next[mpsc_tail_]
  /\ mpsc_cpc' = IF mpsc_next[mpsc_tail_] # Null THEN "take" ELSE "ret_false"
  /\ mpsc_hidden' = (mpsc_hidden \/
                      (/\ mpsc_next[mpsc_tail_] = Null
                       /\ MpscRange(MpscPending) \cap MpscReturned # {}))
  /\ UNCHANGED <<mpsc_next, mpsc_value, mpsc_freed, mpsc_alive, mpsc_tail_,
                 mpsc_out, mpsc_ret, mpsc_deq, mpscProducerVars>>

\* dequeue: return false
MpscDeqFalse ==
  /\ mpsc_cpc = "ret_false"
  /\ mpsc_cpc' = "idle"
  /\ mpsc_ret' = "false"
  /\ UNCHANGED <<mpsc_next, mpsc_value, mpsc_freed, mpsc_alive, mpsc_tail_,
                 mpsc_ct, mpsc_cn, mpsc_out, mpsc_deq, mpsc_hidden,
                 mpscProducerVars>>

\* a faulty dequeue that stores the old tail back
MpscNewTailStale(t, n) == t

\* the node dequeue stores into tail_
MpscNewTail(t, n) == n

\* dequeue: tail_.store(n); value = n->value_; free(t); return true
MpscDeqTake ==
  /\ mpsc_cpc = "take"
  /\ mpsc_tail_' = MpscNewTail(mpsc_ct, mpsc_cn)
  /\ mpsc_out' = mpsc_value[mpsc_cn]
  /\ mpsc_freed' = [mpsc_freed EXCEPT ![mpsc_ct] = @ + 1]
  /\ mpsc_cpc' = "idle"
  /\ mpsc_ret' = "true"
  /\ mpsc_deq' = Append(mpsc_deq, mpsc_value[mpsc_cn])
  /\ UNCHANGED <<mpsc_next, mpsc_value, mpsc_alive, mpsc_ct, mpsc_cn,
                 mpsc_hidden, mpscProducerVars>>

\* ~mpsc_queue(), run when no call is in progress: the assert passes when
\* head_ == tail_, then the member stub_ is destroyed and its unique_ptr
\* deletes the node it has held since construction; head_ and tail_ are
\* plain pointers and release nothing
MpscDestruct ==
  /\ mpsc_alive
  /\ \A p \in MpscProducerIds : mpsc_ppc[p] = "idle"
  /\ mpsc_cpc = "idle"
  /\ mpsc_head_ = mpsc_tail_
  /\ mpsc_alive' = FALSE
  /\ mpsc_freed' = [mpsc_freed EXCEPT ![stub_] = @ + 1]
  /\ UNCHANGED <<mpsc_next, mpsc_value, mpsc_tail_, mpsc_cpc, mpsc_ct,
                 mpsc_cn, mpsc_out, mpsc_ret, mpsc_deq, mpsc_hidden,
                 mpscProducerVars>>

\* the other queues are untouched by the MPSC queue's steps
MpscFrame ==
  UNCHANGED <<spscVars, mpmcVars, bqVars, wpVars, pxVars, ecVars, tfVars>>

MpscNext ==
  \/ MpscFrame /\ \E p \in MpscProducerIds : MpscEnqExchange(p)
  \/ MpscFrame /\ \E p \in MpscProducerIds : MpscEnqLink(p)
  \/ MpscFrame /\ MpscDeqLoad
  \/ MpscFrame /\ MpscDeqFalse
  \/ MpscFrame /\ MpscDeqTake
  \/ MpscFrame /\ MpscDestruct

\* ======================================================== unbounded MPMC
MpmcProducerIds == 1..MqProducers
MpmcConsumerIds == 1..MqConsumers
MpmcNodeIds == 1..(MqMaxEnq + 1)

\* mpmc_queue(): stub_(new node(0)), head_ and tail_ both at the stub.  The
\* file includes proxy_collector.h but constructs no proxy for the queue:
\* no consumer is pinned and nothing has been posted.
MpmcInit ==
  /\ mpmc_next = [n \in MpmcNodeIds |-> Null]
  /\ mpmc_value = [n \in MpmcNodeIds |-> 0]
  /\ mpmc_nodes = 1
  /\ mpmc_head_ = 1
  /\ mpmc_tail_ = 1
  /\ mpmc_ppc = [p \in MpmcProducerIds |-> "idle"]
  /\ mpmc_pn = [p \in MpmcProducerIds |-> Null]
  /\ mpmc_pp = [p \in MpmcProducerIds |-> Null]
  /\ mpmc_cpc = [c \in MpmcConsumerIds |-> "idle"]
  /\ mpmc_ct = [c \in MpmcConsumerIds |-> Null]
  /\ mpmc_cn = [c \in MpmcConsumerIds |-> Null]
  /\ mpmc_out = [c \in MpmcConsumerIds |-> 0]
  /\ mpmc_out0 = [c \in MpmcConsumerIds |-> 0]
  /\ mpmc_ret = [c \in MpmcConsumerIds |-> "none"]
  /\ mpmc_pinned = [c \in MpmcConsumerIds |-> FALSE]
  /\ mpmc_posted = {}
  /\ mpmc_retired = {}
  /\ mpmc_enqs = 0
  /\ mpmc_xchg = <<>>
  /\ mpmc_won = <<>>

mpmcProducerVars == <<mpmc_nodes, mpmc_head_, mpmc_ppc, mpmc_pn, mpmc_pp,
                      mpmc_enqs, mpmc_xchg>>
mpmcConsumerVars == <<mpmc_tail_, mpmc_cpc, mpmc_ct, mpmc_cn, mpmc_out,
                      mpmc_out0, mpmc_ret, mpmc_pinned, mpmc_posted,
                      mpmc_retired, mpmc_won>>

\* enqueue(value): n = new node(value); p = head_.exchange(n, acq_rel)
MpmcEnqExchange(p) ==
  /\ mpmc_ppc[p] = "idle"
  /\ mpmc_enqs < MqMaxEnq
  /\ mpmc_enqs' = mpmc_enqs + 1
  /\ mpmc_nodes' = mpmc_nodes + 1
  /\ mpmc_value' = [mpmc_value EXCEPT ![mpmc_nodes + 1] = mpmc_enqs + 1]
  /\ mpmc_next' = [mpmc_next EXCEPT ![mpmc_nodes + 1] = Null]
  /\ mpmc_pn' = [mpmc_pn EXCEPT ![p] = mpmc_nodes + 1]
  /\ mpmc_pp' = [mpmc_pp EXCEPT ![p] = mpmc_head_]
  /\ mpmc_head_' = mpmc_nodes + 1
  /\ mpmc_ppc' = [mpmc_ppc EXCEPT ![p] = "link"]
  /\ mpmc_xchg' = Append(mpmc_xchg, mpmc_nodes + 1)
  /\ UNCHANGED mpmcConsumerVars

\* enqueue: p->next_.store(n, release); the call returns
MpmcEnqLink(p) ==
  /\ mpmc_ppc[p] = "link"
  /\ mpmc_next' = [mpmc_next EXCEPT ![mpmc_pp[p]] = mpmc_pn[p]]
  /\ mpmc_ppc' = [mpmc_ppc EXCEPT ![p] = "idle"]
  /\ UNCHANGED <<mpmc_value, mpmc_nodes, mpmc_head_, mpmc_pn, mpmc_pp,
                 mpmc_enqs, mpmc_xchg, mpmcConsumerVars>>

\* dequeue is called: t = tail_.load()
MpmcDeqLoadTail(c) ==
  /\ mpmc_cpc[c] = "idle"
  /\ mpmc_ct' = [mpmc_ct EXCEPT ![c] = mpmc_tail_]
  /\ mpmc_out0' = [mpmc_out0 EXCEPT ![c] = mpmc_out[c]]
  /\ mpmc_cpc' = [mpmc_cpc EXCEPT ![c] = "next"]
  /\ UNCHANGED <<mpmc_next, mpmc_value, mpmc_tail_, mpmc_cn, mpmc_out,
                 mpmc_ret, mpmc_pinned, mpmc_posted, mpmc_retired, mpmc_won,
                 mpmcProducerVars>>

\* dequeue, loop body: n = t->next_.load(); if (!n) return false;
\* else value = n->value_ (value is the caller's variable)
MpmcDeqLoadNext(c) ==
  /\ mpmc_cpc[c] = "next"
  /\ mpmc_cn' = [mpmc_cn EXCEPT ![c] = mpmc_next[mpmc_ct[c]]]
  /\ IF mpmc_next[mpmc_ct[c]] = Null
       THEN /\ mpmc_cpc' = [mpmc_cpc EXCEPT ![c] = "idle"]
            /\ mpmc_ret' = [mpmc_ret EXCEPT ![c] = "false"]
            /\ UNCHANGED mpmc_out
       ELSE /\ mpmc_cpc' = [mpmc_cpc EXCEPT ![c] = "cas"]
            /\ mpmc_out' = [mpmc_out EXCEPT
                              ![c] = mpmc_value[mpmc_next[mpmc_ct[c]]]]
            /\ UNCHANGED mpmc_ret
  /\ UNCHANGED <<mpmc_next, mpmc_value, mpmc_tail_, mpmc_ct, mpmc_out0,
                 mpmc_pinned, mpmc_posted, mpmc_retired, mpmc_won,
                 mpmcProducerVars>>

\* a faulty compare_exchange that never compares
MpmcCasBlind(current, expected) == TRUE

\* compare_exchange's comparison of tail_ with the expected t
MpmcCasMatches(current, expected) == current = expected

\* dequeue: tail_.compare_exchange_weak(t, n) succeeds; return true.  The
\* old tail t is neither freed nor handed to a collector.
MpmcDeqCasWin(c) ==
  /\ mpmc_cpc[c] = "cas"
  /\ MpmcCasMatches(mpmc_tail_, mpmc_ct[c])
  /\ mpmc_tail_' = mpmc_cn[c]
  /\ mpmc_cpc' = [mpmc_cpc EXCEPT ![c] = "idle"]
  /\ mpmc_ret' = [mpmc_ret EXCEPT ![c] = "true"]
  /\ mpmc_retired' = mpmc_retired \cup {mpmc_ct[c]}
  /\ mpmc_won' = Append(mpmc_won, [node |-> mpmc_cn[c],
                                   value |-> mpmc_out[c]])
  /\ UNCHANGED <<mpmc_next, mpmc_value, mpmc_ct, mpmc_cn, mpmc_out,
                 mpmc_out0, mpmc_pinned, mpmc_posted, mpmcProducerVars>>

\* dequeue: the CAS fails because tail_ moved; t takes tail_'s value and the
\* loop body runs again
MpmcDeqCasLose(c) ==
  /\ mpmc_cpc[c] = "cas"
  /\ ~MpmcCasMatches(mpmc_tail_, mpmc_ct[c])
  /\ mpmc_ct' = [mpmc_ct EXCEPT ![c] = mpmc_tail_]
  /\ mpmc_cpc' = [mpmc_cpc EXCEPT ![c] = "next"]
  /\ UNCHANGED <<mpmc_next, mpmc_value, mpmc_tail_, mpmc_cn, mpmc_out,
                 mpmc_out0, mpmc_ret, mpmc_pinned, mpmc_posted, mpmc_retired,
                 mpmc_won, mpmcProducerVars>>

\* dequeue: compare_exchange_weak fails spuriously; t keeps its value and
\* the loop body runs again
MpmcDeqCasSpurious(c) ==
  /\ mpmc_cpc[c] = "cas"
  /\ MpmcCasMatches(mpmc_tail_, mpmc_ct[c])
  /\ mpmc_cpc' = [mpmc_cpc EXCEPT ![c] = "next"]
  /\ UNCHANGED <<mpmc_next, mpmc_value, mpmc_tail_, mpmc_ct, mpmc_cn,
                 mpmc_out, mpmc_out0, mpmc_ret, mpmc_pinned, mpmc_posted,
                 mpmc_retired, mpmc_won, mpmcProducerVars>>

\* the other queues are untouched by the unbounded MPMC queue's steps
MpmcFrame ==
  UNCHANGED <<spscVars, mpscVars, bqVars, wpVars, pxVars, ecVars, tfVars>>

MpmcNext ==
  \/ MpmcFrame /\ \E p \in MpmcProducerIds : MpmcEnqExchange(p)
  \/ MpmcFrame /\ \E p \in MpmcProducerIds : MpmcEnqLink(p)
  \/ MpmcFrame /\ \E c \in MpmcConsumerIds : MpmcDeqLoadTail(c)
  \/ MpmcFrame /\ \E c \in MpmcConsumerIds : MpmcDeqLoadNext(c)
  \/ MpmcFrame /\ \E c \in MpmcConsumerIds : MpmcDeqCasWin(c)
  \/ MpmcFrame /\ \E c \in MpmcConsumerIds : MpmcDeqCasLose(c)
  \/ MpmcFrame /\ \E c \in MpmcConsumerIds : MpmcDeqCasSpurious(c)

\* ========================================================== bounded MPMC
\* the template parameter buffer_size, at the least value its static_assert
\* admits
buffer_size == 2
buffer_mask_ == buffer_size - 1

BqThreadIds == 1..BqThreads
BqCells == 0..(buffer_size - 1)

\* pos & buffer_mask_, for a mask of the form 2^k - 1
BqAnd(pos, mask) == pos % (mask + 1)

BqEnqPcs == {"enq_seq", "enq_reload", "enq_cas", "enq_write", "enq_publish"}
BqDeqPcs == {"deq_seq", "deq_reload", "deq_cas", "deq_read", "deq_release"}

\* mpmc_bounded_queue(): sequence_ of cell i is i, both positions 0; the
\* cells' data_ is left as allocated (0 here, a value no enqueue passes)
BqInit ==
  /\ bq_sequence = [i \in BqCells |-> i]
  /\ bq_data = [i \in BqCells |-> 0]
  /\ enqueue_pos_ = 0
  /\ dequeue_pos_ = 0
  /\ bq_pc = [t \in BqThreadIds |-> "idle"]
  /\ bq_pos = [t \in BqThreadIds |-> 0]
  /\ bq_arg = [t \in BqThreadIds |-> 0]
  /\ bq_out = [t \in BqThreadIds |-> 0]
  /\ bq_ret = [t \in BqThreadIds |-> "none"]
  /\ bq_calls = 0
  /\ bq_enq = <<>>
  /\ bq_taken = <<>>
  /\ bq_deq = {}
  /\ bq_seen = [t \in BqThreadIds |-> FALSE]
  /\ bq_quiet = [t \in BqThreadIds |-> FALSE]

\* the oldest dequeue ticket whose dequeue has not yet stored the cell's
\* sequence_ (dequeue_pos_ when every winner has)
BqDeqReleased ==
  LET open == {bq_pos[t] : t \in {u \in BqThreadIds :
                                    bq_pc[u] \in {"deq_read", "deq_release"}}}
  IN  CHOOSE p \in open \cup {dequeue_pos_} :
        \A q \in open \cup {dequeue_pos_} : p <= q

\* the oldest enqueue ticket whose enqueue has not yet stored the cell's
\* sequence_ (enqueue_pos_ when every winner has)
BqEnqPublished ==
  LET open == {bq_pos[t] : t \in {u \in BqThreadIds :
                                    bq_pc[u] \in {"enq_write", "enq_publish"}}}
  IN  CHOOSE p \in open \cup {enqueue_pos_} :
        \A q \in open \cup {enqueue_pos_} : p <= q

\* the history variables bq_seen and bq_quiet after a step of thread t
BqObserve(t) ==
  LET called == bq_pc[t] = "idle"
      deqBefore == \E u \in BqThreadIds : bq_pc[u] \in BqDeqPcs
      deqAfter == \E u \in BqThreadIds : bq_pc'[u] \in BqDeqPcs
      fullBefore == enqueue_pos_ - dequeue_pos_ = buffer_size
      fullAfter == enqueue_pos_' - dequeue_pos_' = buffer_size
      emptyAfter == enqueue_pos_' - dequeue_pos_' = 0
  IN
  /\ bq_seen' = [u \in BqThreadIds |->
       \/ (~(u = t /\ called) /\ bq_seen[u])
       \/ (bq_pc'[u] \in BqEnqPcs /\ fullAfter)
       \/ (bq_pc'[u] \in BqDeqPcs /\ emptyAfter)]
  /\ bq_quiet' = [u \in BqThreadIds |->
       IF u = t /\ called
         THEN bq_pc'[u] \in BqEnqPcs /\ fullBefore /\ ~deqBefore
         ELSE bq_quiet[u] /\ (bq_pc'[u] \in BqEnqPcs => ~deqAfter)]

\* enqueue: intptr_t dif = (intptr_t)seq - (intptr_t)pos
BqEnqDif(seq, pos) == seq - pos
\* a faulty enqueue that also takes a cell whose item is not yet dequeued
BqEnqWritableEarly(dif) == dif <= 0
\* a faulty enqueue that takes the cell whatever its sequence_
BqEnqWritableAny(dif) == TRUE
\* enqueue: dif == 0, the cell is free for ticket pos
BqEnqWritable(dif) == dif = 0
\* a faulty enqueue that gives up whenever the cell is not free
BqEnqFullEager(dif) == dif # 0
\* enqueue: dif < 0, the cell still holds the item of ticket pos - buffer_size
BqEnqFull(dif) == dif < 0

\* dequeue: intptr_t dif = (intptr_t)seq - (intptr_t)(pos + 1)
BqDeqDif(seq, pos) == seq - (pos + 1)
\* dequeue: dif == 0, the cell holds the item of ticket pos
BqDeqReadable(dif) == dif = 0
\* a faulty dequeue that gives up whenever the cell is not readable
BqDeqEmptyEager(dif) == dif # 0
\* dequeue: dif < 0, the item of ticket pos is not published
BqDeqEmpty(dif) == dif < 0

\* a faulty compare_exchange that never compares
BqCasBlind(current, expected) == TRUE

\* compare_exchange's comparison of a position counter with the expected pos
BqCasMatches(current, expected) == current = expected

\* enqueue(data) is called: pos = enqueue_pos_.load(relaxed)
BqEnqCall(t) ==
  /\ bq_pc[t] = "idle"
  /\ bq_calls < BqMaxEnq
  /\ bq_calls' = bq_calls + 1
  /\ bq_arg' = [bq_arg EXCEPT ![t] = bq_calls + 1]
  /\ bq_pos' = [bq_pos EXCEPT ![t] = enqueue_pos_]
  /\ bq_pc' = [bq_pc EXCEPT ![t] = "enq_seq"]
  /\ UNCHANGED <<bq_sequence, bq_data, enqueue_pos_, dequeue_pos_, bq_out,
                 bq_ret, bq_enq, bq_taken, bq_deq>>
  /\ BqObserve(t)

\* enqueue, loop body: seq = cell->sequence_.load(acquire) and the branch on
\* dif; dif < 0 returns false
BqEnqLoadSeq(t) ==
  /\ bq_pc[t] = "enq_seq"
  /\ LET dif == BqEnqDif(bq_sequence[BqAnd(bq_pos[t], buffer_mask_)], bq_pos[t])
     IN  IF BqEnqWritable(dif)
           THEN /\ bq_pc' = [bq_pc EXCEPT ![t] = "enq_cas"]
                /\ UNCHANGED <<bq_ret, bq_pos, bq_arg>>
           ELSE IF BqEnqFull(dif)
             THEN /\ bq_pc' = [bq_pc EXCEPT ![t] = "idle"]
                  /\ bq_ret' = [bq_ret EXCEPT ![t] = "enq_false"]
                  /\ bq_pos' = [bq_pos EXCEPT ![t] = 0]
                  /\ bq_arg' = [bq_arg EXCEPT ![t] = 0]
             ELSE /\ bq_pc' = [bq_pc EXCEPT ![t] = "enq_reload"]
                  /\ UNCHANGED <<bq_ret, bq_pos, bq_arg>>
  /\ UNCHANGED <<bq_sequence, bq_data, enqueue_pos_, dequeue_pos_, bq_out,
                 bq_calls, bq_enq, bq_deq, bq_taken>>
  /\ BqObserve(t)

\* enqueue, dif > 0: pos = enqueue_pos_.load(relaxed)
BqEnqReload(t) ==
  /\ bq_pc[t] = "enq_reload"
  /\ bq_pos' = [bq_pos EXCEPT ![t] = enqueue_pos_]
  /\ bq_pc' = [bq_pc EXCEPT ![t] = "enq_seq"]
  /\ UNCHANGED <<bq_sequence, bq_data, enqueue_pos_, dequeue_pos_, bq_arg,
                 bq_out, bq_ret, bq_calls, bq_enq, bq_deq, bq_taken>>
  /\ BqObserve(t)

\* enqueue: enqueue_pos_.compare_exchange_weak(pos, pos + 1) succeeds
BqEnqCasWin(t) ==
  /\ bq_pc[t] = "enq_cas"
  /\ BqCasMatches(enqueue_pos_, bq_pos[t])
  /\ enqueue_pos_' = bq_pos[t] + 1
  /\ bq_pc' = [bq_pc EXCEPT ![t] = "enq_write"]
  /\ bq_enq' = Append(bq_enq, [pos |-> bq_pos[t], value |-> bq_arg[t]])
  /\ UNCHANGED <<bq_sequence, bq_data, dequeue_pos_, bq_pos, bq_arg, bq_out,
                 bq_ret, bq_calls, bq_deq, bq_taken>>
  /\ BqObserve(t)

\* enqueue: the CAS fails because enqueue_pos_ moved; pos takes its value
BqEnqCasLose(t) ==
  /\ bq_pc[t] = "enq_cas"
  /\ ~BqCasMatches(enqueue_pos_, bq_pos[t])
  /\ bq_pos' = [bq_pos EXCEPT ![t] = enqueue_pos_]
  /\ bq_pc' = [bq_pc EXCEPT ![t] = "enq_seq"]
  /\ UNCHANGED <<bq_sequence, bq_data, enqueue_pos_, dequeue_pos_, bq_arg,
                 bq_out, bq_ret, bq_calls, bq_enq, bq_deq, bq_taken>>
  /\ BqObserve(t)

\* enqueue: compare_exchange_weak fails spuriously; pos keeps its value
BqEnqCasSpurious(t) ==
  /\ bq_pc[t] = "enq_cas"
  /\ BqCasMatches(enqueue_pos_, bq_pos[t])
  /\ bq_pc' = [bq_pc EXCEPT ![t] = "enq_seq"]
  /\ UNCHANGED <<bq_sequence, bq_data, enqueue_pos_, dequeue_pos_, bq_pos,
                 bq_arg, bq_out, bq_ret, bq_calls, bq_enq, bq_deq, bq_taken>>
  /\ BqObserve(t)

\* enqueue: cell->data_ = data
BqEnqWrite(t) ==
  /\ bq_pc[t] = "enq_write"
  /\ bq_data' = [bq_data EXCEPT ![BqAnd(bq_pos[t], buffer_mask_)] = bq_arg[t]]
  /\ bq_pc' = [bq_pc EXCEPT ![t] = "enq_publish"]
  /\ UNCHANGED <<bq_sequence, enqueue_pos_, dequeue_pos_, bq_pos, bq_arg,
                 bq_out, bq_ret, bq_calls, bq_enq, bq_deq, bq_taken>>
  /\ BqObserve(t)

\* a faulty enqueue that stores the sequence_ it found
BqEnqSeqSame(pos) == pos

\* the sequence_ an enqueue of ticket pos stores into its cell
BqEnqSeq(pos) == pos + 1

\* enqueue: cell->sequence_.store(pos + 1, release); return true
BqEnqPublish(t) ==
  /\ bq_pc[t] = "enq_publish"
  /\ bq_sequence' = [bq_sequence EXCEPT
       ![BqAnd(bq_pos[t], buffer_mask_)] = BqEnqSeq(bq_pos[t])]
  /\ bq_pc' = [bq_pc EXCEPT ![t] = "idle"]
  /\ bq_ret' = [bq_ret EXCEPT ![t] = "enq_true"]
  /\ bq_pos' = [bq_pos EXCEPT ![t] = 0]
  /\ bq_arg' = [bq_arg EXCEPT ![t] = 0]
  /\ UNCHANGED <<bq_data, enqueue_pos_, dequeue_pos_, bq_out, bq_calls,
                 bq_enq, bq_deq, bq_taken>>
  /\ BqObserve(t)

\* dequeue(data) is called: pos = dequeue_pos_.load(relaxed)
BqDeqCall(t) ==
  /\ bq_pc[t] = "idle"
  /\ bq_pos' = [bq_pos EXCEPT ![t] = dequeue_pos_]
  /\ bq_pc' = [bq_pc EXCEPT ![t] = "deq_seq"]
  /\ UNCHANGED <<bq_sequence, bq_data, enqueue_pos_, dequeue_pos_, bq_arg,
                 bq_out, bq_ret, bq_calls, bq_enq, bq_deq, bq_taken>>
  /\ BqObserve(t)

\* dequeue, loop body: seq = cell->sequence_.load(acquire) and the branch on
\* dif; dif < 0 returns false
BqDeqLoadSeq(t) ==
  /\ bq_pc[t] = "deq_seq"
  /\ LET dif == BqDeqDif(bq_sequence[BqAnd(bq_pos[t], buffer_mask_)], bq_pos[t])
     IN  IF BqDeqReadable(dif)
           THEN /\ bq_pc' = [bq_pc EXCEPT ![t] = "deq_cas"]
                /\ UNCHANGED <<bq_ret, bq_pos>>
           ELSE IF BqDeqEmpty(dif)
             THEN /\ bq_pc' = [bq_pc EXCEPT ![t] = "idle"]
                  /\ bq_ret' = [bq_ret EXCEPT ![t] = "deq_false"]
                  /\ bq_pos' = [bq_pos EXCEPT ![t] = 0]
             ELSE /\ bq_pc' = [bq_pc EXCEPT ![t] = "deq_reload"]
                  /\ UNCHANGED <<bq_ret, bq_pos>>
  /\ UNCHANGED <<bq_sequence, bq_data, enqueue_pos_, dequeue_pos_, bq_arg,
                 bq_out, bq_calls, bq_enq, bq_deq, bq_taken>>
  /\ BqObserve(t)

\* dequeue, dif > 0: pos = dequeue_pos_.load(relaxed)
BqDeqReload(t) ==
  /\ bq_pc[t] = "deq_reload"
  /\ bq_pos' = [bq_pos EXCEPT ![t] = dequeue_pos_]
  /\ bq_pc' = [bq_pc EXCEPT ![t] = "deq_seq"]
  /\ UNCHANGED <<bq_sequence, bq_data, enqueue_pos_, dequeue_pos_, bq_arg,
                 bq_out, bq_ret, bq_calls, bq_enq, bq_deq, bq_taken>>
  /\ BqObserve(t)

\* dequeue: dequeue_pos_.compare_exchange_weak(pos, pos + 1) succeeds
BqDeqCasWin(t) ==
  /\ bq_pc[t] = "deq_cas"
  /\ BqCasMatches(dequeue_pos_, bq_pos[t])
  /\ dequeue_pos_' = bq_pos[t] + 1
  /\ bq_pc' = [bq_pc EXCEPT ![t] = "deq_read"]
  /\ bq_taken' = Append(bq_taken, bq_pos[t])
  /\ UNCHANGED <<bq_sequence, bq_data, enqueue_pos_, bq_pos, bq_arg, bq_out,
                 bq_ret, bq_calls, bq_enq, bq_deq>>
  /\ BqObserve(t)

\* dequeue: the CAS fails because dequeue_pos_ moved; pos takes its value
BqDeqCasLose(t) ==
  /\ bq_pc[t] = "deq_cas"
  /\ ~BqCasMatches(dequeue_pos_, bq_pos[t])
  /\ bq_pos' = [bq_pos EXCEPT ![t] = dequeue_pos_]
  /\ bq_pc' = [bq_pc EXCEPT ![t] = "deq_seq"]
  /\ UNCHANGED <<bq_sequence, bq_data, enqueue_pos_, dequeue_pos_, bq_arg,
                 bq_out, bq_ret, bq_calls, bq_enq, bq_deq, bq_taken>>
  /\ BqObserve(t)

\* dequeue: compare_exchange_weak fails spuriously; pos keeps its value
BqDeqCasSpurious(t) ==
  /\ bq_pc[t] = "deq_cas"
  /\ BqCasMatches(dequeue_pos_, bq_pos[t])
  /\ bq_pc' = [bq_pc EXCEPT ![t] = "deq_seq"]
  /\ UNCHANGED <<bq_sequence, bq_data, enqueue_pos_, dequeue_pos_, bq_pos,
                 bq_arg, bq_out, bq_ret, bq_calls, bq_enq, bq_deq, bq_taken>>
  /\ BqObserve(t)

\* dequeue: data = cell->data_
BqDeqRead(t) ==
  /\ bq_pc[t] = "deq_read"
  /\ bq_out' = [bq_out EXCEPT ![t] = bq_data[BqAnd(bq_pos[t], buffer_mask_)]]
  /\ bq_pc' = [bq_pc EXCEPT ![t] = "deq_release"]
  /\ UNCHANGED <<bq_sequence, bq_data, enqueue_pos_, dequeue_pos_, bq_pos,
                 bq_arg, bq_ret, bq_calls, bq_enq, bq_deq, bq_taken>>
  /\ BqObserve(t)

\* dequeue: cell->sequence_.store(pos + buffer_mask_ + 1, release);
\* return true
BqDeqRelease(t) ==
  /\ bq_pc[t] = "deq_release"
  /\ bq_sequence' = [bq_sequence EXCEPT
       ![BqAnd(bq_pos[t], buffer_mask_)] = bq_pos[t] + buffer_mask_ + 1]
  /\ bq_pc' = [bq_pc EXCEPT ![t] = "idle"]
  /\ bq_ret' = [bq_ret EXCEPT ![t] = "deq_true"]
  /\ bq_deq' = bq_deq \cup {[pos |-> bq_pos[t], value |-> bq_out[t]]}
  /\ bq_pos' = [bq_pos EXCEPT ![t] = 0]
  /\ UNCHANGED <<bq_data, enqueue_pos_, dequeue_pos_, bq_arg, bq_out,
                 bq_calls, bq_enq, bq_taken>>
  /\ BqObserve(t)

\* the other queues are untouched by the bounded queue's steps
BqFrame ==
  UNCHANGED <<spscVars, mpscVars, mpmcVars, wpVars, pxVars, ecVars, tfVars>>

BqNext ==
  \/ BqFrame /\ \E t \in BqThreadIds : BqEnqCall(t)
  \/ BqFrame /\ \E t \in BqThreadIds : BqEnqLoadSeq(t)
  \/ BqFrame /\ \E t \in BqThreadIds : BqEnqReload(t)
  \/ BqFrame /\ \E t \in BqThreadIds : BqEnqCasWin(t)
  \/ BqFrame /\ \E t \in BqThreadIds : BqEnqCasLose(t)
  \/ BqFrame /\ \E t \in BqThreadIds : BqEnqCasSpurious(t)
  \/ BqFrame /\ \E t \in BqThreadIds : BqEnqWrite(t)
  \/ BqFrame /\ \E t \in BqThreadIds : BqEnqPublish(t)
  \/ BqFrame /\ \E t \in BqThreadIds : BqDeqCall(t)
  \/ BqFrame /\ \E t \in BqThreadIds : BqDeqLoadSeq(t)
  \/ BqFrame /\ \E t \in BqThreadIds : BqDeqReload(t)
  \/ BqFrame /\ \E t \in BqThreadIds : BqDeqCasWin(t)
  \/ BqFrame /\ \E t \in BqThreadIds : BqDeqCasLose(t)
  \/ BqFrame /\ \E t \in BqThreadIds : BqDeqCasSpurious(t)
  \/ BqFrame /\ \E t \in BqThreadIds : BqDeqRead(t)
  \/ BqFrame /\ \E t \in BqThreadIds : BqDeqRelease(t)

\* ============================================ word-based proxy collector
\* typedef proxy<DEFER, 4>: the template arguments the program uses
T_defer_limit == 6
T_collector_size == 4
collector_size_mask_ == T_collector_size - 1

WpThreadIds == 1..WpThreads
WpNodeIds == 1..WpMaxNodes
WpCollectorIds == 0..(T_collector_size - 1)

\* word & 0xFU: the collector index held in the low four bits
WpIndex(word) == word % 16
\* word & 0xFFFFFFF0U: the reference count part of a word
WpRefs(word) == word - (word % 16)
\* word & 0x10U: the quiescence flag of a collector's count_
WpOdd(word) == (word % 32) >= 16
\* (old + 1) & collector_size_mask_, for a mask of the form 2^k - 1
WpNextIndex(old, mask) == (old + 1) % (mask + 1)

\* proxy(): current_ 0, quiesce_ false, defer_ null, every collector empty
WpInit ==
  /\ wp_current_ = 0
  /\ wp_quiesce_ = FALSE
  /\ wp_defer_ = Null
  /\ wp_cdefer_ = [i \in WpCollectorIds |-> Null]
  /\ wp_defer_count_ = [i \in WpCollectorIds |-> 0]
  /\ wp_count_ = [i \in WpCollectorIds |-> 0]
  /\ wp_defer_next_ = [n \in WpNodeIds |-> Null]
  /\ wp_linked = [n \in WpNodeIds |-> FALSE]
  /\ wp_nodes = 0
  /\ wp_deleted = [n \in WpNodeIds |-> 0]
  /\ wp_wild = FALSE
  /\ wp_alive = TRUE
  /\ wp_pc = [t \in WpThreadIds |-> "idle"]
  /\ wp_pinned = [t \in WpThreadIds |-> FALSE]
  /\ wp_c = [t \in WpThreadIds |-> 0]
  /\ wp_q = [t \in WpThreadIds |-> 0]
  /\ wp_old = [t \in WpThreadIds |-> 0]
  /\ wp_n = [t \in WpThreadIds |-> Null]
  /\ wp_prev = [t \in WpThreadIds |-> Null]
  /\ wp_then = [t \in WpThreadIds |-> "idle"]
  /\ wp_lag = [t \in WpThreadIds |-> 0]
  /\ wp_nlag = [n \in WpNodeIds |-> 0]
  /\ wp_guard = [n \in WpNodeIds |-> {}]
  /\ wp_by = [n \in WpNodeIds |-> "none"]
  /\ wp_home = [n \in WpNodeIds |-> 0]
  /\ wp_stage = [n \in WpNodeIds |-> 0]

wpSharedVars == <<wp_current_, wp_quiesce_, wp_defer_, wp_cdefer_,
                  wp_defer_count_, wp_count_, wp_defer_next_, wp_linked,
                  wp_nodes, wp_deleted, wp_wild, wp_alive>>
wpHistoryVars == <<wp_lag, wp_nlag, wp_guard, wp_by, wp_home, wp_stage>>

\* the nodes prv_destroy deletes starting from n: it follows defer_next_
\* until null; a defer_next_ never assigned is an indeterminate pointer
RECURSIVE WpList(_, _)
WpList(n, fuel) ==
  IF n = Null \/ fuel = 0 THEN {}
  ELSE {n} \cup (IF wp_linked[n] THEN WpList(wp_defer_next_[n], fuel - 1)
                 ELSE {})

RECURSIVE WpListWild(_, _)
WpListWild(n, fuel) ==
  IF n = Null \/ fuel = 0 THEN FALSE
  ELSE ~wp_linked[n] \/ WpListWild(wp_defer_next_[n], fuel - 1)

\* acquire: current_.fetch_add(0x20); the collector of the old index
WpAcquireStep(t) ==
  /\ wp_current_' = wp_current_ + 32
  /\ wp_c' = [wp_c EXCEPT ![t] = WpIndex(wp_current_)]
  /\ wp_pinned' = [wp_pinned EXCEPT ![t] = TRUE]
  /\ wp_pc' = [wp_pc EXCEPT ![t] = "idle"]
  /\ wp_then' = [wp_then EXCEPT ![t] = "idle"]
  /\ UNCHANGED <<wp_quiesce_, wp_defer_, wp_cdefer_, wp_defer_count_,
                 wp_count_, wp_defer_next_, wp_linked, wp_nodes, wp_deleted,
                 wp_wild, wp_alive, wp_q, wp_old, wp_n, wp_prev,
                 wpHistoryVars>>

\* a thread holding no collector calls acquire()
WpAcquire(t) ==
  /\ wp_alive
  /\ wp_pc[t] = "idle"
  /\ ~wp_pinned[t]
  /\ WpRefs(wp_current_) < 32 * WpMaxRefs
  /\ WpAcquireStep(t)

\* sync: acquire() after the release of the quiescing collector
WpSyncAcquire(t) ==
  /\ wp_pc[t] = "acquire"
  /\ WpAcquireStep(t)

\* a release that takes any odd count for the last reference
WpLastRefOdd(count) == WpOdd(count)

\* a release that compares the count it left behind, not the one it found
WpLastRefAfter(count) == WpRefs(count) = 16

\* release's test for the last reference of a quiescing collector
WpLastRef(count) == WpRefs(count) = 48

\* release(c): c.count_.fetch_sub(0x20); the last reference of a quiescing
\* collector goes on to prv_quiesce_complete(c)
WpReleaseStep(t) ==
  /\ wp_count_' = [wp_count_ EXCEPT ![wp_c[t]] = @ - 32]
  /\ wp_pinned' = [wp_pinned EXCEPT ![t] = FALSE]
  /\ wp_c' = [wp_c EXCEPT ![t] = 0]
  /\ wp_guard' = [n \in WpNodeIds |-> wp_guard[n] \ {t}]
  /\ IF WpLastRef(wp_count_[wp_c[t]])
       THEN /\ wp_pc' = [wp_pc EXCEPT ![t] = "complete"]
            /\ wp_q' = [wp_q EXCEPT ![t] = wp_c[t]]
            /\ UNCHANGED wp_then
       ELSE /\ wp_pc' = [wp_pc EXCEPT ![t] = wp_then[t]]
            /\ wp_then' = [wp_then EXCEPT ![t] = "idle"]
            /\ UNCHANGED wp_q
  /\ UNCHANGED <<wp_current_, wp_quiesce_, wp_defer_, wp_cdefer_,
                 wp_defer_count_, wp_defer_next_, wp_linked, wp_nodes,
                 wp_deleted, wp_wild, wp_alive, wp_old, wp_n, wp_prev,
                 wp_nlag, wp_by, wp_home, wp_stage>>
  /\ wp_lag' = [wp_lag EXCEPT ![t] = 0]

\* a thread holding collector c calls release(c)
WpRelease(t) ==
  /\ wp_pc[t] = "idle"
  /\ wp_pinned[t]
  /\ WpReleaseStep(t)

\* sync: release(c) of the quiescing collector
WpSyncRelease(t) ==
  /\ wp_pc[t] = "sync_release"
  /\ WpReleaseStep(t)

\* sync(c): c.count_.load() & 0x10U; a quiescing c is released and the
\* current collector acquired, otherwise c is kept
WpSync(t) ==
  /\ wp_pc[t] = "idle"
  /\ wp_pinned[t]
  /\ WpOdd(wp_count_[wp_c[t]])
  /\ wp_pc' = [wp_pc EXCEPT ![t] = "sync_release"]
  /\ wp_then' = [wp_then EXCEPT ![t] = "acquire"]
  /\ UNCHANGED <<wpSharedVars, wp_pinned, wp_c, wp_q, wp_old, wp_n, wp_prev,
                 wpHistoryVars>>

\* collect(c, n) by a thread holding c, n a node just unlinked:
\* prev = c.defer_.exchange(n)
WpCollectExchange(t) ==
  /\ wp_pc[t] = "idle"
  /\ wp_pinned[t]
  /\ wp_nodes < WpMaxNodes
  /\ wp_nodes' = wp_nodes + 1
  /\ wp_n' = [wp_n EXCEPT ![t] = wp_nodes + 1]
  /\ wp_prev' = [wp_prev EXCEPT ![t] = wp_cdefer_[wp_c[t]]]
  /\ wp_cdefer_' = [wp_cdefer_ EXCEPT ![wp_c[t]] = wp_nodes + 1]
  /\ wp_pc' = [wp_pc EXCEPT ![t] = "link"]
  /\ wp_nlag' = [wp_nlag EXCEPT ![wp_nodes + 1] = wp_lag[t]]
  /\ wp_guard' = [wp_guard EXCEPT
                    ![wp_nodes + 1] = {u \in WpThreadIds : wp_pinned[u]}]
  /\ wp_home' = [wp_home EXCEPT ![wp_nodes + 1] = wp_c[t]]
  /\ UNCHANGED <<wp_current_, wp_quiesce_, wp_defer_, wp_defer_count_,
                 wp_count_, wp_defer_next_, wp_linked, wp_deleted, wp_wild,
                 wp_alive, wp_pinned, wp_c, wp_q, wp_old, wp_then, wp_lag,
                 wp_by, wp_stage>>

\* collect(c, n): n->defer_next_ = prev
WpCollectLink(t) ==
  /\ wp_pc[t] = "link"
  /\ wp_defer_next_' = [wp_defer_next_ EXCEPT ![wp_n[t]] = wp_prev[t]]
  /\ wp_linked' = [wp_linked EXCEPT ![wp_n[t]] = TRUE]
  /\ wp_pc' = [wp_pc EXCEPT ![t] = "count"]
  /\ wp_n' = [wp_n EXCEPT ![t] = Null]
  /\ wp_prev' = [wp_prev EXCEPT ![t] = Null]
  /\ UNCHANGED <<wp_current_, wp_quiesce_, wp_defer_, wp_cdefer_,
                 wp_defer_count_, wp_count_, wp_nodes, wp_deleted, wp_wild,
                 wp_alive, wp_pinned, wp_c, wp_q, wp_old, wp_then,
                 wpHistoryVars>>

\* collect(c, n)'s test of the bumped defer count against the limit
WpOverLimit(count) == count >= T_defer_limit \div 2

\* collect(c, n): count = c.defer_count_.fetch_add(1) + 1; at the limit
\* the call goes on to prv_quiesce_begin()
WpCollectCount(t) ==
  /\ wp_pc[t] = "count"
  /\ wp_defer_count_' = [wp_defer_count_ EXCEPT ![wp_c[t]] = @ + 1]
  /\ wp_pc' = [wp_pc EXCEPT
       ![t] = IF WpOverLimit(wp_defer_count_[wp_c[t]] + 1)
                THEN "begin" ELSE "idle"]
  /\ UNCHANGED <<wp_current_, wp_quiesce_, wp_defer_, wp_cdefer_, wp_count_,
                 wp_defer_next_, wp_linked, wp_nodes, wp_deleted, wp_wild,
                 wp_alive, wp_pinned, wp_c, wp_q, wp_old, wp_n, wp_prev,
                 wp_then, wpHistoryVars>>

\* a faulty begin that goes on whatever the flag was
WpWonAlways(was) == TRUE

\* prv_quiesce_begin's test of what quiesce_.exchange(true) returned
WpWon(was) == ~was

\* prv_quiesce_begin: quiesce_.exchange(true); the thread that finds it
\* false goes on, any other returns
WpBeginStep(t) ==
  /\ wp_quiesce_' = TRUE
  /\ wp_pc' = [wp_pc EXCEPT
       ![t] = IF WpWon(wp_quiesce_) THEN "advance" ELSE "idle"]
  /\ UNCHANGED <<wp_current_, wp_defer_, wp_cdefer_, wp_defer_count_,
                 wp_count_, wp_defer_next_, wp_linked, wp_nodes, wp_deleted,
                 wp_wild, wp_alive, wp_pinned, wp_c, wp_q, wp_old, wp_n,
                 wp_prev, wp_then, wpHistoryVars>>

\* a thread calls collect()
WpCollect(t) ==
  /\ wp_alive
  /\ wp_pc[t] = "idle"
  /\ WpBeginStep(t)

\* collect(c, n) at the defer limit calls prv_quiesce_begin()
WpCollectBegin(t) ==
  /\ wp_pc[t] = "begin"
  /\ WpBeginStep(t)

\* prv_quiesce_begin: old = current_.exchange((old + 1) & mask), the index
\* taken from the load just before
WpBeginAdvance(t) ==
  /\ wp_pc[t] = "advance"
  /\ wp_old' = [wp_old EXCEPT ![t] = wp_current_]
  /\ wp_current_' = WpNextIndex(WpIndex(wp_current_), collector_size_mask_)
  /\ wp_pc' = [wp_pc EXCEPT ![t] = "add"]
  /\ wp_lag' = [u \in WpThreadIds |->
                  IF wp_pinned[u] /\ wp_lag[u] < collector_size_mask_
                    THEN wp_lag[u] + 1 ELSE wp_lag[u]]
  /\ wp_nlag' = [n \in WpNodeIds |->
                   IF n <= wp_nodes /\ wp_nlag[n] < collector_size_mask_
                     THEN wp_nlag[n] + 1 ELSE wp_nlag[n]]
  /\ UNCHANGED <<wp_quiesce_, wp_defer_, wp_cdefer_, wp_defer_count_,
                 wp_count_, wp_defer_next_, wp_linked, wp_nodes, wp_deleted,
                 wp_wild, wp_alive, wp_pinned, wp_c, wp_q, wp_n, wp_prev,
                 wp_then, wp_guard, wp_by, wp_home, wp_stage>>

\* a quiescence begin that takes the collector for released while references
\* on it are outstanding
WpAllReleasedAny(count, refs) == count <= refs

\* prv_quiesce_begin's drop-to-zero test on the value fetch_add returns
WpAllReleased(count, refs) == count = -refs

\* a faulty begin that adds the references without the quiescence flag
WpBeginDeltaEven(refs) == refs

\* what prv_quiesce_begin adds to the collector's count_: refs + 0x10U
WpBeginDelta(refs) == refs + 16

\* prv_quiesce_begin: c.count_.fetch_add(refs + 0x10U); when every
\* reference was already released the call goes on to
\* prv_quiesce_complete(c)
WpBeginAdd(t) ==
  /\ wp_pc[t] = "add"
  /\ LET c == WpIndex(wp_old[t])
         refs == WpRefs(wp_old[t])
     IN  /\ wp_count_' = [wp_count_ EXCEPT ![c] = @ + WpBeginDelta(refs)]
         /\ wp_old' = [wp_old EXCEPT ![t] = 0]
         /\ IF WpAllReleased(wp_count_[c], refs)
              THEN /\ wp_pc' = [wp_pc EXCEPT ![t] = "complete"]
                   /\ wp_q' = [wp_q EXCEPT ![t] = c]
              ELSE /\ wp_pc' = [wp_pc EXCEPT ![t] = "idle"]
                   /\ UNCHANGED wp_q
  /\ UNCHANGED <<wp_current_, wp_quiesce_, wp_defer_, wp_cdefer_,
                 wp_defer_count_, wp_defer_next_, wp_linked, wp_nodes,
                 wp_deleted, wp_wild, wp_alive, wp_pinned, wp_c, wp_n,
                 wp_prev, wp_then, wpHistoryVars>>

\* a faulty completion that takes the collector's own list for destruction
WpDetachedFresh(back, fresh) == fresh

\* prv_quiesce_complete: node* n = defer_, the list to destroy
WpDetached(back, fresh) == back

\* a faulty completion that leaves the proxy's back link as it was
WpBackLinkKept(back, fresh) == back

\* prv_quiesce_complete: defer_ = c.defer_.load(), the new back link
WpBackLink(back, fresh) == fresh

\* prv_quiesce_complete(c): n = defer_; defer_ = c.defer_; c.defer_ = 0;
\* the assert on c.count_; c.count_ = 0; c.defer_count_ = 0
WpComplete(t) ==
  /\ wp_pc[t] = "complete"
  /\ wp_n' = [wp_n EXCEPT ![t] = WpDetached(wp_defer_, wp_cdefer_[wp_q[t]])]
  /\ wp_defer_' = WpBackLink(wp_defer_, wp_cdefer_[wp_q[t]])
  /\ wp_cdefer_' = [wp_cdefer_ EXCEPT ![wp_q[t]] = Null]
  /\ wp_count_' = [wp_count_ EXCEPT ![wp_q[t]] = 0]
  /\ wp_defer_count_' = [wp_defer_count_ EXCEPT ![wp_q[t]] = 0]
  /\ wp_pc' = [wp_pc EXCEPT ![t] = "unlock"]
  /\ wp_stage' = [n \in WpNodeIds |->
       IF n > wp_nodes \/ wp_deleted[n] > 0 THEN wp_stage[n]
       ELSE IF wp_stage[n] = 0
         THEN (IF wp_home[n] = wp_q[t] THEN 1 ELSE 0)
         ELSE 2]
  /\ wp_home' = [n \in WpNodeIds |->
       IF n <= wp_nodes /\ wp_home[n] = wp_q[t] THEN 0 ELSE wp_home[n]]
  /\ UNCHANGED <<wp_current_, wp_quiesce_, wp_defer_next_, wp_linked,
                 wp_nodes, wp_deleted, wp_wild, wp_alive, wp_pinned, wp_c,
                 wp_q, wp_old, wp_prev, wp_then, wp_lag, wp_nlag, wp_guard,
                 wp_by>>

\* prv_quiesce_complete(c): quiesce_.store(false, release)
WpCompleteUnlock(t) ==
  /\ wp_pc[t] = "unlock"
  /\ wp_quiesce_' = FALSE
  /\ wp_pc' = [wp_pc EXCEPT ![t] = "destroy"]
  /\ wp_q' = [wp_q EXCEPT ![t] = 0]
  /\ UNCHANGED <<wp_current_, wp_defer_, wp_cdefer_, wp_defer_count_,
                 wp_count_, wp_defer_next_, wp_linked, wp_nodes, wp_deleted,
                 wp_wild, wp_alive, wp_pinned, wp_c, wp_old, wp_n, wp_prev,
                 wp_then, wpHistoryVars>>

\* prv_quiesce_complete: prv_destroy(n); the call that led here returns
WpDestroy(t) ==
  /\ wp_pc[t] = "destroy"
  /\ LET dead == WpList(wp_n[t], WpMaxNodes)
     IN  /\ wp_deleted' = [n \in WpNodeIds |->
                             wp_deleted[n] + (IF n \in dead THEN 1 ELSE 0)]
         /\ wp_by' = [n \in WpNodeIds |->
                        IF n \in dead THEN "quiesce" ELSE wp_by[n]]
         /\ wp_stage' = [n \in WpNodeIds |->
                           IF n \in dead THEN 0 ELSE wp_stage[n]]
  /\ wp_wild' = (wp_wild \/ WpListWild(wp_n[t], WpMaxNodes))
  /\ wp_pc' = [wp_pc EXCEPT ![t] = wp_then[t]]
  /\ wp_then' = [wp_then EXCEPT ![t] = "idle"]
  /\ wp_n' = [wp_n EXCEPT ![t] = Null]
  /\ UNCHANGED <<wp_current_, wp_quiesce_, wp_defer_, wp_cdefer_,
                 wp_defer_count_, wp_count_, wp_defer_next_, wp_linked,
                 wp_nodes, wp_alive, wp_pinned, wp_c, wp_q, wp_old,
                 wp_prev, wp_lag, wp_nlag, wp_guard, wp_home>>

\* the program ends with every thread joined: ~proxy() destroys defer_,
\* then each ~collector() destroys its defer_
WpDestruct ==
  /\ wp_alive
  /\ \A t \in WpThreadIds : wp_pc[t] = "idle" /\ ~wp_pinned[t]
  /\ wp_alive' = FALSE
  /\ LET lists == [i \in WpCollectorIds |->
                     WpList(wp_cdefer_[i], WpMaxNodes)]
         own == WpList(wp_defer_, WpMaxNodes)
         times(n) == (IF n \in own THEN 1 ELSE 0)
                     + Cardinality({i \in WpCollectorIds : n \in lists[i]})
     IN  /\ wp_deleted' = [n \in WpNodeIds |-> wp_deleted[n] + times(n)]
         /\ wp_by' = [n \in WpNodeIds |->
                        IF times(n) > 0 THEN "destructor" ELSE wp_by[n]]
  /\ wp_wild' = (\/ wp_wild
                 \/ WpListWild(wp_defer_, WpMaxNodes)
                 \/ \E i \in WpCollectorIds :
                      WpListWild(wp_cdefer_[i], WpMaxNodes))
  /\ UNCHANGED <<wp_current_, wp_quiesce_, wp_defer_, wp_cdefer_,
                 wp_defer_count_, wp_count_, wp_defer_next_, wp_linked,
                 wp_nodes, wp_pc, wp_pinned, wp_c, wp_q, wp_old, wp_n,
                 wp_prev, wp_then, wp_lag, wp_nlag, wp_guard, wp_home,
                 wp_stage>>

\* the queues are untouched by the word-based collector's steps
WpFrame ==
  UNCHANGED <<spscVars, mpscVars, mpmcVars, bqVars, pxVars, ecVars, tfVars>>

WpNext ==
  \/ WpFrame /\ \E t \in WpThreadIds : WpAcquire(t)
  \/ WpFrame /\ \E t \in WpThreadIds : WpSyncAcquire(t)
  \/ WpFrame /\ \E t \in WpThreadIds : WpRelease(t)
  \/ WpFrame /\ \E t \in WpThreadIds : WpSyncRelease(t)
  \/ WpFrame /\ \E t \in WpThreadIds : WpSync(t)
  \/ WpFrame /\ \E t \in WpThreadIds : WpCollectExchange(t)
  \/ WpFrame /\ \E t \in WpThreadIds : WpCollectLink(t)
  \/ WpFrame /\ \E t \in WpThreadIds : WpCollectCount(t)
  \/ WpFrame /\ \E t \in WpThreadIds : WpCollect(t)
  \/ WpFrame /\ \E t \in WpThreadIds : WpCollectBegin(t)
  \/ WpFrame /\ \E t \in WpThreadIds : WpBeginAdvance(t)
  \/ WpFrame /\ \E t \in WpThreadIds : WpBeginAdd(t)
  \/ WpFrame /\ \E t \in WpThreadIds : WpComplete(t)
  \/ WpFrame /\ \E t \in WpThreadIds : WpCompleteUnlock(t)
  \/ WpFrame /\ \E t \in WpThreadIds : WpDestroy(t)
  \/ WpFrame /\ WpDestruct

\* the steps of the call thread t is inside
WpRunning(t) ==
  /\ WpFrame
  /\ \/ WpSyncAcquire(t) \/ WpSyncRelease(t) \/ WpCollectLink(t)
     \/ WpCollectCount(t) \/ WpCollectBegin(t) \/ WpBeginAdvance(t)
     \/ WpBeginAdd(t) \/ WpComplete(t) \/ WpCompleteUnlock(t)
     \/ WpDestroy(t)

\* ========================================== sequence-based proxy collector
\* proxy of mpmc_unbounded_queue.cpp.  A collector is a number; collector 1
\* is the one the constructor makes.  A callback is the number of the
\* defer_recycle call that passed it.  The compare-exchange loops of acquire
\* and defer_recycle on tail_ have no effect until they succeed and are one
\* step each; alloc_collector and release_adjust are taken statement by
\* statement.  Collectors are deleted by ~proxy only, so a stale pointer to a
\* recycled collector reads that collector's present fields.
GUARD == 1
REFERENCE == 2

PxThreadIds == 1..PxThreads
PxCallbackIds == 1..PxMaxDefer
\* the constructor's collector and at most one new one per defer_recycle
PxCollectorIds == 1..(PxMaxDefer + 1)

\* sequence_collector(c, sequence)
sequence_collector(c, sequence) == [c_ |-> c, sequence_ |-> sequence]

\* proxy(): one collector with count GUARD + REFERENCE is tail_, free_head_
\* and free_tail_
PxInit ==
  /\ px_tail_ = sequence_collector(1, 0)
  /\ px_free_head_ = sequence_collector(1, 0)
  /\ px_free_tail_ = 1
  /\ px_count_ = [c \in PxCollectorIds |-> IF c = 1 THEN GUARD + REFERENCE
                                                    ELSE 0]
  /\ px_next_ = [c \in PxCollectorIds |-> Null]
  /\ px_defer_free = [c \in PxCollectorIds |-> Null]
  /\ px_heap = 1
  /\ px_wild = FALSE
  /\ px_pc = [t \in PxThreadIds |-> "idle"]
  /\ px_op = [t \in PxThreadIds |-> "none"]
  /\ px_held = [t \in PxThreadIds |-> Null]
  /\ px_f = [t \in PxThreadIds |-> Null]
  /\ px_c = [t \in PxThreadIds |-> Null]
  /\ px_old_free = [t \in PxThreadIds |-> sequence_collector(Null, 0)]
  /\ px_new_free = [t \in PxThreadIds |-> Null]
  /\ px_current = [t \in PxThreadIds |-> Null]
  /\ px_adjusted = [t \in PxThreadIds |-> 0]
  /\ px_nextc = [t \in PxThreadIds |-> Null]
  /\ px_ft = [t \in PxThreadIds |-> Null]
  /\ px_ft_next = [t \in PxThreadIds |-> Null]
  /\ px_started = 0
  /\ px_invoked = [f \in PxCallbackIds |-> 0]
  /\ px_order = <<>>
  /\ px_swaps = <<>>
  /\ px_guard = [f \in PxCallbackIds |-> {}]
  /\ px_cb = [c \in PxCollectorIds |-> Null]
  /\ px_zero = {}
  /\ px_reused = {}

pxSharedVars == <<px_tail_, px_free_head_, px_free_tail_, px_count_,
                  px_next_, px_defer_free, px_heap>>
pxAllocLocals == <<px_c, px_old_free, px_new_free>>
pxAdjustLocals == <<px_current, px_adjusted, px_nextc, px_ft, px_ft_next>>
pxHistoryVars == <<px_started, px_invoked, px_order, px_swaps, px_guard,
                   px_cb, px_zero, px_reused>>

\* c->next_ through a pointer that may be null
PxNextOf(c) == IF c = Null THEN Null ELSE px_next_[c]

\* c->count_ through a pointer that may be null
PxCountOf(c) == IF c = Null THEN 0 ELSE px_count_[c]

\* acquire: the compare-exchange that adds REFERENCE to tail_.sequence_
\* succeeds; the collector in tail_ is returned
PxAcquire(t) ==
  /\ px_pc[t] = "idle"
  /\ px_held[t] = Null
  /\ px_tail_.sequence_ < REFERENCE * PxMaxRefs
  /\ px_tail_' = sequence_collector(px_tail_.c_,
                                    px_tail_.sequence_ + REFERENCE)
  /\ px_held' = [px_held EXCEPT ![t] = px_tail_.c_]
  /\ UNCHANGED <<px_free_head_, px_free_tail_, px_count_, px_next_,
                 px_defer_free, px_heap, px_wild, px_pc, px_op, px_f,
                 pxAllocLocals, pxAdjustLocals, pxHistoryVars>>

\* release(c): release_adjust(c, 0) is entered
PxRelease(t) ==
  /\ px_pc[t] = "idle"
  /\ px_held[t] # Null
  /\ px_pc' = [px_pc EXCEPT ![t] = "ra_load"]
  /\ px_op' = [px_op EXCEPT ![t] = "release"]
  /\ px_current' = [px_current EXCEPT ![t] = px_held[t]]
  /\ px_adjusted' = [px_adjusted EXCEPT ![t] = REFERENCE - 0]
  /\ UNCHANGED <<pxSharedVars, px_wild, px_held, px_f, pxAllocLocals,
                 px_nextc, px_ft, px_ft_next, pxHistoryVars>>

\* the reader of thread t has released once release()'s step on count_ is
\* done: it leaves the guard of every callback
PxUnpin(t) ==
  IF px_op[t] = "release"
    THEN /\ px_held' = [px_held EXCEPT ![t] = Null]
         /\ px_guard' = [f \in PxCallbackIds |-> px_guard[f] \ {t}]
    ELSE UNCHANGED <<px_held, px_guard>>

\* release_adjust returns
PxReturn(t) ==
  /\ px_pc' = [px_pc EXCEPT ![t] = "idle"]
  /\ px_current' = [px_current EXCEPT ![t] = Null]
  /\ px_adjusted' = [px_adjusted EXCEPT ![t] = 0]

\* a test that takes any count at or above the caller's share for the drop
PxDroppedEarly(count, adjusted_count) == count >= adjusted_count

\* a test that looks for a count of zero where the code compares with the
\* caller's share
PxDroppedZero(count, adjusted_count) == count = 0

\* release_adjust's test that the count it finds, or the count fetch_sub
\* found, is the whole of what this caller takes away: drop to zero
PxDropped(count, adjusted_count) == count = adjusted_count

\* release_adjust: current->count_.load() == adjusted_count
PxAdjustLoad(t) ==
  /\ px_pc[t] = "ra_load"
  /\ px_wild' = (px_wild \/ px_current[t] = Null)
  /\ IF PxDropped(PxCountOf(px_current[t]), px_adjusted[t])
       THEN /\ px_pc' = [px_pc EXCEPT ![t] = "ra_next"]
            /\ px_op' = [px_op EXCEPT ![t] = "none"]
            /\ PxUnpin(t)
            /\ px_zero' = px_zero \cup ({px_current[t]} \ {Null})
       ELSE /\ px_pc' = [px_pc EXCEPT ![t] = "ra_sub"]
            /\ UNCHANGED <<px_op, px_held, px_guard, px_zero>>
  /\ UNCHANGED <<pxSharedVars, px_f, pxAllocLocals, pxAdjustLocals,
                 px_started, px_invoked, px_order, px_swaps, px_cb,
                 px_reused>>

\* release_adjust: current->count_.fetch_sub(adjusted_count)
\*                 == adjusted_count
PxAdjustSub(t) ==
  /\ px_pc[t] = "ra_sub"
  /\ px_current[t] # Null
  /\ px_count_' = [px_count_ EXCEPT ![px_current[t]] = @ - px_adjusted[t]]
  /\ px_op' = [px_op EXCEPT ![t] = "none"]
  /\ PxUnpin(t)
  /\ IF PxDropped(px_count_[px_current[t]], px_adjusted[t])
       THEN /\ px_pc' = [px_pc EXCEPT ![t] = "ra_next"]
            /\ px_zero' = px_zero \cup {px_current[t]}
            /\ UNCHANGED <<px_current, px_adjusted>>
       ELSE /\ PxReturn(t)
            /\ UNCHANGED px_zero
  /\ UNCHANGED <<px_tail_, px_free_head_, px_free_tail_, px_next_,
                 px_defer_free, px_heap, px_wild, px_f, pxAllocLocals,
                 px_nextc, px_ft, px_ft_next, px_started, px_invoked,
                 px_order, px_swaps, px_cb, px_reused>>

\* release_adjust: next = current->next_.load().c_
PxAdjustNext(t) ==
  /\ px_pc[t] = "ra_next"
  /\ px_nextc' = [px_nextc EXCEPT ![t] = PxNextOf(px_current[t])]
  /\ px_current' = [px_current EXCEPT ![t] = Null]
  /\ px_pc' = [px_pc EXCEPT ![t] = "ra_ft_load"]
  /\ UNCHANGED <<pxSharedVars, px_wild, px_op, px_held, px_f,
                 pxAllocLocals, px_adjusted, px_ft, px_ft_next,
                 pxHistoryVars>>

\* release_adjust: free_tail = free_tail_.load()
PxFreeTailLoad(t) ==
  /\ px_pc[t] = "ra_ft_load"
  /\ px_ft' = [px_ft EXCEPT ![t] = px_free_tail_]
  /\ px_pc' = [px_pc EXCEPT ![t] = "ra_ft_next"]
  /\ UNCHANGED <<pxSharedVars, px_wild, px_op, px_held, px_f,
                 pxAllocLocals, px_current, px_adjusted, px_nextc,
                 px_ft_next, pxHistoryVars>>

\* release_adjust: free_tail_next = free_tail.c_->next_.load()
PxFreeTailNext(t) ==
  /\ px_pc[t] = "ra_ft_next"
  /\ px_wild' = (px_wild \/ px_ft[t] = Null)
  /\ px_ft_next' = [px_ft_next EXCEPT ![t] = PxNextOf(px_ft[t])]
  /\ px_pc' = [px_pc EXCEPT ![t] = "ra_ft_cas"]
  /\ UNCHANGED <<pxSharedVars, px_op, px_held, px_f, pxAllocLocals,
                 px_current, px_adjusted, px_nextc, px_ft, pxHistoryVars>>

\* release_adjust: free_tail_.compare_exchange_weak(free_tail,
\* free_tail_next); a failure reloads free_tail and reads its next_ again
PxFreeTailCas(t) ==
  /\ px_pc[t] = "ra_ft_cas"
  /\ IF px_free_tail_ = px_ft[t]
       THEN /\ px_free_tail_' = px_ft_next[t]
            /\ px_ft' = [px_ft EXCEPT ![t] = Null]
            /\ px_pc' = [px_pc EXCEPT ![t] = "ra_call"]
       ELSE /\ px_ft' = [px_ft EXCEPT ![t] = px_free_tail_]
            /\ px_pc' = [px_pc EXCEPT ![t] = "ra_ft_next"]
            /\ UNCHANGED px_free_tail_
  /\ px_ft_next' = [px_ft_next EXCEPT ![t] = Null]
  /\ UNCHANGED <<px_tail_, px_free_head_, px_count_, px_next_,
                 px_defer_free, px_heap, px_wild, px_op, px_held, px_f,
                 pxAllocLocals, px_current, px_adjusted, px_nextc,
                 pxHistoryVars>>

\* release_adjust: current = next; current->defer_free is called if set and
\* cleared; adjusted_count = REFERENCE
PxAdjustCall(t) ==
  /\ px_pc[t] = "ra_call"
  /\ px_current' = [px_current EXCEPT ![t] = px_nextc[t]]
  /\ px_nextc' = [px_nextc EXCEPT ![t] = Null]
  /\ px_adjusted' = [px_adjusted EXCEPT ![t] = REFERENCE]
  /\ px_wild' = (px_wild \/ px_nextc[t] = Null)
  /\ IF px_nextc[t] # Null /\ px_defer_free[px_nextc[t]] # Null
       THEN LET f == px_defer_free[px_nextc[t]]
            IN  /\ px_invoked' = [px_invoked EXCEPT ![f] = @ + 1]
                /\ px_order' = Append(px_order, f)
                /\ px_defer_free' = [px_defer_free EXCEPT
                                       ![px_nextc[t]] = Null]
       ELSE UNCHANGED <<px_invoked, px_order, px_defer_free>>
  /\ px_pc' = [px_pc EXCEPT ![t] = "ra_load"]
  /\ UNCHANGED <<px_tail_, px_free_head_, px_free_tail_, px_count_,
                 px_next_, px_heap, px_op, px_held, px_f, pxAllocLocals,
                 px_ft, px_ft_next, px_started, px_swaps, px_guard, px_cb,
                 px_zero, px_reused>>

\* defer_recycle(f): alloc_collector(true) is entered,
\* old_free = free_head_.load()
PxDeferCall(t) ==
  /\ px_pc[t] = "idle"
  /\ px_started < PxMaxDefer
  /\ px_started' = px_started + 1
  /\ px_f' = [px_f EXCEPT ![t] = px_started + 1]
  /\ px_old_free' = [px_old_free EXCEPT ![t] = px_free_head_]
  /\ px_pc' = [px_pc EXCEPT ![t] = "al_test"]
  /\ UNCHANGED <<pxSharedVars, px_wild, px_op, px_held, px_c, px_new_free,
                 pxAdjustLocals, px_invoked, px_order, px_swaps, px_guard,
                 px_cb, px_zero, px_reused>>

\* a loop test that takes the collector at free_tail_ for a free one
PxFreeListAny(old_free, free_tail) == old_free.c_ # Null

\* alloc_collector's loop test: the free list is not empty
PxFreeListHas(old_free, free_tail) == old_free.c_ # free_tail

\* alloc_collector: while (old_free.c_ != free_tail_.load().c_); with the
\* list empty c stays null and new collector() is returned
PxAllocTest(t) ==
  /\ px_pc[t] = "al_test"
  /\ IF PxFreeListHas(px_old_free[t], px_free_tail_)
       THEN /\ px_pc' = [px_pc EXCEPT ![t] = "al_next"]
            /\ UNCHANGED <<px_heap, px_c, px_old_free, px_count_, px_next_,
                           px_defer_free, px_cb>>
       ELSE /\ px_heap < PxMaxDefer + 1
            /\ px_heap' = px_heap + 1
            /\ px_c' = [px_c EXCEPT ![t] = px_heap + 1]
            /\ px_count_' = [px_count_ EXCEPT ![px_heap + 1] = 0]
            /\ px_next_' = [px_next_ EXCEPT ![px_heap + 1] = Null]
            /\ px_defer_free' = [px_defer_free EXCEPT ![px_heap + 1] = Null]
            /\ px_cb' = [px_cb EXCEPT ![px_heap + 1] = Null]
            /\ px_old_free' = [px_old_free EXCEPT
                                 ![t] = sequence_collector(Null, 0)]
            /\ px_pc' = [px_pc EXCEPT ![t] = "df_init"]
  /\ UNCHANGED <<px_tail_, px_free_head_, px_free_tail_, px_wild, px_op,
                 px_held, px_f, px_new_free, pxAdjustLocals, px_started,
                 px_invoked, px_order, px_swaps, px_guard, px_zero,
                 px_reused>>

\* alloc_collector: new_free.c_ = old_free.c_->next_.load().c_
PxAllocNext(t) ==
  /\ px_pc[t] = "al_next"
  /\ px_wild' = (px_wild \/ px_old_free[t].c_ = Null)
  /\ px_new_free' = [px_new_free EXCEPT ![t] = PxNextOf(px_old_free[t].c_)]
  /\ px_pc' = [px_pc EXCEPT ![t] = "al_cas"]
  /\ UNCHANGED <<pxSharedVars, px_op, px_held, px_f, px_c, px_old_free,
                 pxAdjustLocals, pxHistoryVars>>

\* alloc_collector: free_head_.compare_exchange_strong(old_free, new_free)
\* with new_free.sequence_ = old_free.sequence_ + GUARD; on success
\* c = old_free.c_ and c->reset(); a failure reloads old_free
PxAllocCas(t) ==
  /\ px_pc[t] = "al_cas"
  /\ IF px_free_head_ = px_old_free[t]
       THEN LET c == px_old_free[t].c_
            IN  /\ px_free_head_' =
                     sequence_collector(px_new_free[t],
                                        px_old_free[t].sequence_ + GUARD)
                /\ px_c' = [px_c EXCEPT ![t] = c]
                /\ px_count_' = [px_count_ EXCEPT ![c] = 0]
                /\ px_next_' = [px_next_ EXCEPT ![c] = Null]
                /\ px_defer_free' = [px_defer_free EXCEPT ![c] = Null]
                /\ px_cb' = [px_cb EXCEPT ![c] = Null]
                /\ px_zero' = px_zero \ {c}
                /\ px_reused' = px_reused \cup {c}
                /\ px_old_free' = [px_old_free EXCEPT
                                     ![t] = sequence_collector(Null, 0)]
                /\ px_pc' = [px_pc EXCEPT ![t] = "df_init"]
       ELSE /\ px_old_free' = [px_old_free EXCEPT ![t] = px_free_head_]
            /\ px_pc' = [px_pc EXCEPT ![t] = "al_test"]
            /\ UNCHANGED <<px_free_head_, px_c, px_count_, px_next_,
                           px_defer_free, px_cb, px_zero, px_reused>>
  /\ px_new_free' = [px_new_free EXCEPT ![t] = Null]
  /\ UNCHANGED <<px_tail_, px_free_tail_, px_heap, px_wild, px_op, px_held,
                 px_f, pxAdjustLocals, px_started, px_invoked, px_order,
                 px_swaps, px_guard>>

\* defer_recycle: c->count_ = GUARD + 2 * REFERENCE; c->defer_free = f
PxDeferInit(t) ==
  /\ px_pc[t] = "df_init"
  /\ px_count_' = [px_count_ EXCEPT ![px_c[t]] = GUARD + 2 * REFERENCE]
  /\ px_defer_free' = [px_defer_free EXCEPT ![px_c[t]] = px_f[t]]
  /\ px_cb' = [px_cb EXCEPT ![px_c[t]] = px_f[t]]
  /\ px_pc' = [px_pc EXCEPT ![t] = "df_swap"]
  /\ UNCHANGED <<px_tail_, px_free_head_, px_free_tail_, px_next_, px_heap,
                 px_wild, px_op, px_held, px_f, pxAllocLocals,
                 pxAdjustLocals, px_started, px_invoked, px_order, px_swaps,
                 px_guard, px_zero, px_reused>>

\* defer_recycle: the compare-exchange that puts (c, 0) into tail_ succeeds;
\* old_tail is what it replaced, and release_adjust will be called with
\* old_tail.c_ and old_tail.sequence_ - GUARD
PxDeferSwap(t) ==
  /\ px_pc[t] = "df_swap"
  /\ px_tail_' = sequence_collector(px_c[t], 0)
  /\ px_current' = [px_current EXCEPT ![t] = px_tail_.c_]
  /\ px_adjusted' = [px_adjusted EXCEPT
                       ![t] = REFERENCE - (px_tail_.sequence_ - GUARD)]
  /\ px_swaps' = Append(px_swaps, px_f[t])
  /\ px_guard' = [px_guard EXCEPT
                    ![px_f[t]] = {u \in PxThreadIds : px_held[u] # Null}]
  /\ px_f' = [px_f EXCEPT ![t] = Null]
  /\ px_pc' = [px_pc EXCEPT ![t] = "df_link"]
  /\ UNCHANGED <<px_free_head_, px_free_tail_, px_count_, px_next_,
                 px_defer_free, px_heap, px_wild, px_op, px_held,
                 pxAllocLocals, px_nextc, px_ft, px_ft_next, px_started,
                 px_invoked, px_order, px_cb, px_zero, px_reused>>

\* defer_recycle: old_tail.c_->next_.store(c); release_adjust is entered
PxDeferLink(t) ==
  /\ px_pc[t] = "df_link"
  /\ px_next_' = [px_next_ EXCEPT ![px_current[t]] = px_c[t]]
  /\ px_c' = [px_c EXCEPT ![t] = Null]
  /\ px_pc' = [px_pc EXCEPT ![t] = "ra_load"]
  /\ UNCHANGED <<px_tail_, px_free_head_, px_free_tail_, px_count_,
                 px_defer_free, px_heap, px_wild, px_op, px_held, px_f,
                 px_old_free, px_new_free, pxAdjustLocals, pxHistoryVars>>

\* the other components are untouched by these steps
PxFrame ==
  UNCHANGED <<spscVars, mpscVars, mpmcVars, bqVars, wpVars, ecVars, tfVars>>

PxNext ==
  \/ PxFrame /\ \E t \in PxThreadIds : PxAcquire(t)
  \/ PxFrame /\ \E t \in PxThreadIds : PxRelease(t)
  \/ PxFrame /\ \E t \in PxThreadIds : PxAdjustLoad(t)
  \/ PxFrame /\ \E t \in PxThreadIds : PxAdjustSub(t)
  \/ PxFrame /\ \E t \in PxThreadIds : PxAdjustNext(t)
  \/ PxFrame /\ \E t \in PxThreadIds : PxFreeTailLoad(t)
  \/ PxFrame /\ \E t \in PxThreadIds : PxFreeTailNext(t)
  \/ PxFrame /\ \E t \in PxThreadIds : PxFreeTailCas(t)
  \/ PxFrame /\ \E t \in PxThreadIds : PxAdjustCall(t)
  \/ PxFrame /\ \E t \in PxThreadIds : PxDeferCall(t)
  \/ PxFrame /\ \E t \in PxThreadIds : PxAllocTest(t)
  \/ PxFrame /\ \E t \in PxThreadIds : PxAllocNext(t)
  \/ PxFrame /\ \E t \in PxThreadIds : PxAllocCas(t)
  \/ PxFrame /\ \E t \in PxThreadIds : PxDeferInit(t)
  \/ PxFrame /\ \E t \in PxThreadIds : PxDeferSwap(t)
  \/ PxFrame /\ \E t \in PxThreadIds : PxDeferLink(t)

\* the steps of the call thread t is inside
PxRunning(t) ==
  /\ PxFrame
  /\ \/ PxAdjustLoad(t) \/ PxAdjustSub(t) \/ PxAdjustNext(t)
     \/ PxFreeTailLoad(t) \/ PxFreeTailNext(t) \/ PxFreeTailCas(t)
     \/ PxAdjustCall(t) \/ PxAllocTest(t) \/ PxAllocNext(t)
     \/ PxAllocCas(t) \/ PxDeferInit(t) \/ PxDeferSwap(t)
     \/ PxDeferLink(t)

\* ============================================================= eventcount
\* eventcount with thread_func of mpsc_queue.cpp: producers enqueue and call
\* notify(), one consumer dequeues through the wait helper.  The queue is
\* kept as the enqueues in the order of their exchange on head_, each with
\* the flag that its store to next_ is done; the consumer can take the next
\* one once that flag is set.  The store is memory_order_seq_cst and the
\* store in prepare_wait is too, so the steps interleave sequentially
\* consistently.
EcProducerIds == 1..EcProducers

\* PRODUCERS * ITERS
EcTotal == EcProducers * EcIters

\* eventcount(): waiting false, semaphore 0; the queue is empty
EcInit ==
  /\ ec_waiting = FALSE
  /\ ec_semaphore = 0
  /\ ec_links = <<>>
  /\ ec_pos = [p \in EcProducerIds |-> 0]
  /\ ec_sent = [p \in EcProducerIds |-> 0]
  /\ ec_ppc = [p \in EcProducerIds |-> "idle"]
  /\ ec_cpc = "check"
  /\ ec_count = 0

\* thread_func, producer: queue.enqueue(i): head_.exchange(n)
EcExchange(p) ==
  /\ ec_ppc[p] = "idle"
  /\ ec_sent[p] < EcIters
  /\ ec_sent' = [ec_sent EXCEPT ![p] = @ + 1]
  /\ ec_links' = Append(ec_links, FALSE)
  /\ ec_pos' = [ec_pos EXCEPT ![p] = Len(ec_links) + 1]
  /\ ec_ppc' = [ec_ppc EXCEPT ![p] = "store"]
  /\ UNCHANGED <<ec_waiting, ec_semaphore, ec_cpc, ec_count>>

\* thread_func, producer: queue.enqueue(i): p->next_.store(n)
EcStore(p) ==
  /\ ec_ppc[p] = "store"
  /\ ec_links' = [ec_links EXCEPT ![ec_pos[p]] = TRUE]
  /\ ec_pos' = [ec_pos EXCEPT ![p] = 0]
  /\ ec_ppc' = [ec_ppc EXCEPT ![p] = "notify"]
  /\ UNCHANGED <<ec_waiting, ec_semaphore, ec_sent, ec_cpc, ec_count>>

\* notify: if (waiting.load(memory_order_acquire))
EcNotifyLoad(p) ==
  /\ ec_ppc[p] = "notify"
  /\ ec_ppc' = [ec_ppc EXCEPT ![p] = IF ec_waiting THEN "clear" ELSE "idle"]
  /\ UNCHANGED <<ec_waiting, ec_semaphore, ec_links, ec_pos, ec_sent,
                 ec_cpc, ec_count>>

\* notify: waiting.store(false, memory_order_release)
EcNotifyClear(p) ==
  /\ ec_ppc[p] = "clear"
  /\ ec_waiting' = FALSE
  /\ ec_ppc' = [ec_ppc EXCEPT ![p] = "post"]
  /\ UNCHANGED <<ec_semaphore, ec_links, ec_pos, ec_sent, ec_cpc,
                 ec_count>>

\* notify: sem_post(&semaphore)
EcNotifyPost(p) ==
  /\ ec_ppc[p] = "post"
  /\ ec_semaphore' = ec_semaphore + 1
  /\ ec_ppc' = [ec_ppc EXCEPT ![p] = "idle"]
  /\ UNCHANGED <<ec_waiting, ec_links, ec_pos, ec_sent, ec_cpc, ec_count>>

\* the predicate of thread_func: queue.dequeue(i) finds tail_->next_ set
EcFunc(links, count) == count < Len(links) /\ links[count + 1]

\* thread_func, consumer: the dequeue of the predicate and, when out
\* returns, count.fetch_add(1) != PRODUCERS * ITERS - 1
EcDequeue(result, found, empty) ==
  IF result
    THEN /\ ec_count' = ec_count + 1
         /\ ec_cpc' = IF found = "check" /\ ec_count + 1 = EcTotal
                        THEN "done" ELSE found
    ELSE /\ ec_cpc' = empty
         /\ UNCHANGED ec_count

\* out: result = func() before the loop
EcCheck ==
  /\ ec_cpc = "check"
  /\ EcDequeue(EcFunc(ec_links, ec_count), "check", "prepare")
  /\ UNCHANGED <<ec_waiting, ec_semaphore, ec_links, ec_pos, ec_sent,
                 ec_ppc>>

\* out: prepare_wait(): waiting.store(true, memory_order_seq_cst)
EcPrepareWait ==
  /\ ec_cpc = "prepare"
  /\ ec_waiting' = TRUE
  /\ ec_cpc' = "recheck"
  /\ UNCHANGED <<ec_semaphore, ec_links, ec_pos, ec_sent, ec_ppc, ec_count>>

\* a wait helper that goes to commit_wait without looking at the queue again
EcRecheckSkipped(links, count) == FALSE

\* out: result = func() between prepare_wait and commit_wait
EcRechecked(links, count) == EcFunc(links, count)

\* out: result = func() after prepare_wait; if (result) / commit_wait
EcRecheck ==
  /\ ec_cpc = "recheck"
  /\ EcDequeue(EcRechecked(ec_links, ec_count), "cancel", "commit")
  /\ UNCHANGED <<ec_waiting, ec_semaphore, ec_links, ec_pos, ec_sent,
                 ec_ppc>>

\* out: cancel_wait(): waiting.store(false); break
EcCancelWait ==
  /\ ec_cpc = "cancel"
  /\ ec_waiting' = FALSE
  /\ ec_cpc' = IF ec_count = EcTotal THEN "done" ELSE "check"
  /\ UNCHANGED <<ec_semaphore, ec_links, ec_pos, ec_sent, ec_ppc, ec_count>>

\* out: commit_wait(): sem_wait(&semaphore) returns
EcCommitWait ==
  /\ ec_cpc = "commit"
  /\ ec_semaphore > 0
  /\ ec_semaphore' = ec_semaphore - 1
  /\ ec_cpc' = "woken"
  /\ UNCHANGED <<ec_waiting, ec_links, ec_pos, ec_sent, ec_ppc, ec_count>>

\* out: result = func() after commit_wait
EcWoken ==
  /\ ec_cpc = "woken"
  /\ EcDequeue(EcFunc(ec_links, ec_count), "check", "prepare")
  /\ UNCHANGED <<ec_waiting, ec_semaphore, ec_links, ec_pos, ec_sent,
                 ec_ppc>>

\* the other components are untouched by these steps
EcFrame ==
  UNCHANGED <<spscVars, mpscVars, mpmcVars, bqVars, wpVars, pxVars, tfVars>>

EcNext ==
  \/ EcFrame /\ \E p \in EcProducerIds : EcExchange(p)
  \/ EcFrame /\ \E p \in EcProducerIds : EcStore(p)
  \/ EcFrame /\ \E p \in EcProducerIds : EcNotifyLoad(p)
  \/ EcFrame /\ \E p \in EcProducerIds : EcNotifyClear(p)
  \/ EcFrame /\ \E p \in EcProducerIds : EcNotifyPost(p)
  \/ EcFrame /\ EcCheck
  \/ EcFrame /\ EcPrepareWait
  \/ EcFrame /\ EcRecheck
  \/ EcFrame /\ EcCancelWait
  \/ EcFrame /\ EcCommitWait
  \/ EcFrame /\ EcWoken

\* the steps of producer p, which runs until its ITERS calls are made
EcProducer(p) ==
  /\ EcFrame
  /\ \/ EcExchange(p) \/ EcStore(p) \/ EcNotifyLoad(p) \/ EcNotifyClear(p)
     \/ EcNotifyPost(p)

\* the steps of the consumer
EcConsumer ==
  /\ EcFrame
  /\ \/ EcCheck \/ EcPrepareWait \/ EcRecheck \/ EcCancelWait
     \/ EcCommitWait \/ EcWoken

\* ============================================== unbounded MPMC: thread_func
\* thread_func of mpmc_unbounded_queue.cpp: threads with tidx < PRODUCERS
\* enqueue ITERS values and call notify() after each, the others dequeue,
\* waiting on the one eventcount ec, and count down the global count.  The
\* queue never frees a node, so it is kept as the enqueues in the order of
\* their exchange on head_, each with its value and the flag that the store
\* to its predecessor's next_ is done; tail_ is the number of nodes the
\* consumers have moved it over.  compare_exchange_weak is taken without
\* its spurious failures, which only repeat the loop.
TfThreadIds == 1..(TfProducers + TfConsumers)

\* tidx < PRODUCERS
TfIsProducer(t) == t <= TfProducers

\* int x = -666
TfSentinel == -666

\* std::atomic<int> count: a global without initializer, zero-initialized
TfCountInit == 0

\* eventcount(), mpmc_queue(), count, and every thread past its start-up
\* loops: a producer before its first enqueue, a consumer before dequeue
TfInit ==
  /\ tf_waiting = FALSE
  /\ tf_semaphore = 0
  /\ tf_links = <<>>
  /\ tf_tail_ = 0
  /\ tf_count = TfCountInit
  /\ tf_pc = [t \in TfThreadIds |->
                IF TfIsProducer(t)
                  THEN (IF 0 < TfIters THEN "exchange" ELSE "done")
                  ELSE "tail"]
  /\ tf_i = [t \in TfThreadIds |-> 0]
  /\ tf_pos = [t \in TfThreadIds |-> 0]
  /\ tf_t = [t \in TfThreadIds |-> 0]
  /\ tf_prepared = [t \in TfThreadIds |-> FALSE]
  /\ tf_last = [t \in TfThreadIds |-> FALSE]

\* the value thread t passes to enqueue: queue.enqueue(i) of a producer,
\* queue.enqueue(x) with x = -666 of the consumer that saw count reach 1
TfEnqValue(t) == IF TfIsProducer(t) THEN tf_i[t] ELSE TfSentinel

\* enqueue: node* p = head_.exchange(n)
TfEnqExchange(t) ==
  /\ tf_pc[t] = "exchange"
  /\ tf_links' = Append(tf_links, [value |-> TfEnqValue(t), linked |-> FALSE])
  /\ tf_pos' = [tf_pos EXCEPT ![t] = Len(tf_links) + 1]
  /\ tf_pc' = [tf_pc EXCEPT ![t] = "store"]
  /\ UNCHANGED <<tf_waiting, tf_semaphore, tf_tail_, tf_count, tf_i, tf_t,
                 tf_prepared, tf_last>>

\* enqueue: p->next_.store(n); a producer goes on to ec.notify(), the
\* consumer to the next round of for (i = 1; i < CONSUMERS; ++i)
TfEnqStore(t) ==
  /\ tf_pc[t] = "store"
  /\ tf_links' = [tf_links EXCEPT ![tf_pos[t]].linked = TRUE]
  /\ tf_pos' = [tf_pos EXCEPT ![t] = 0]
  /\ IF TfIsProducer(t)
       THEN /\ tf_pc' = [tf_pc EXCEPT ![t] = "notify"]
            /\ UNCHANGED tf_i
       ELSE /\ tf_i' = [tf_i EXCEPT ![t] = @ + 1]
            /\ tf_pc' = [tf_pc EXCEPT ![t] =
                           IF tf_i[t] + 1 < TfConsumers
                             THEN "exchange" ELSE "notify"]
  /\ UNCHANGED <<tf_waiting, tf_semaphore, tf_tail_, tf_count, tf_t,
                 tf_prepared, tf_last>>

\* what thread t does when ec.notify() returns: a producer runs ++i and
\* i < ITERS, the consumer leaves thread_func
TfNotified(t) ==
  IF TfIsProducer(t)
    THEN /\ tf_i' = [tf_i EXCEPT ![t] = @ + 1]
         /\ tf_pc' = [tf_pc EXCEPT ![t] =
                        IF tf_i[t] + 1 < TfIters THEN "exchange" ELSE "done"]
    ELSE /\ tf_pc' = [tf_pc EXCEPT ![t] = "done"]
         /\ UNCHANGED tf_i

\* notify: if (waiting.load(memory_order_acquire))
TfNotifyLoad(t) ==
  /\ tf_pc[t] = "notify"
  /\ IF tf_waiting
       THEN /\ tf_pc' = [tf_pc EXCEPT ![t] = "clear"]
            /\ UNCHANGED tf_i
       ELSE TfNotified(t)
  /\ UNCHANGED <<tf_waiting, tf_semaphore, tf_links, tf_tail_, tf_count,
                 tf_pos, tf_t, tf_prepared, tf_last>>

\* notify: waiting.store(false, memory_order_release)
TfNotifyClear(t) ==
  /\ tf_pc[t] = "clear"
  /\ tf_waiting' = FALSE
  /\ tf_pc' = [tf_pc EXCEPT ![t] = "post"]
  /\ UNCHANGED <<tf_semaphore, tf_links, tf_tail_, tf_count, tf_i, tf_pos,
                 tf_t, tf_prepared, tf_last>>

\* notify: sem_post(&semaphore)
TfNotifyPost(t) ==
  /\ tf_pc[t] = "post"
  /\ tf_semaphore' = tf_semaphore + 1
  /\ TfNotified(t)
  /\ UNCHANGED <<tf_waiting, tf_links, tf_tail_, tf_count, tf_pos, tf_t,
                 tf_prepared, tf_last>>

\* dequeue: node* t = tail_.load()
TfDeqLoadTail(c) ==
  /\ tf_pc[c] = "tail"
  /\ tf_t' = [tf_t EXCEPT ![c] = tf_tail_]
  /\ tf_pc' = [tf_pc EXCEPT ![c] = "next"]
  /\ UNCHANGED <<tf_waiting, tf_semaphore, tf_links, tf_tail_, tf_count,
                 tf_i, tf_pos, tf_prepared, tf_last>>

\* dequeue: n = t->next_.load(); if (!n) return false, to prepare_wait()
\* from while (!queue.dequeue(i)) and to commit_wait() from
\* if (queue.dequeue(i)); else value = n->value_
TfDeqLoadNext(c) ==
  /\ tf_pc[c] = "next"
  /\ IF tf_t[c] < Len(tf_links) /\ tf_links[tf_t[c] + 1].linked
       THEN /\ tf_i' = [tf_i EXCEPT ![c] = tf_links[tf_t[c] + 1].value]
            /\ tf_pc' = [tf_pc EXCEPT ![c] = "cas"]
       ELSE /\ tf_pc' = [tf_pc EXCEPT ![c] =
                           IF tf_prepared[c] THEN "commit" ELSE "prepare"]
            /\ UNCHANGED tf_i
  /\ UNCHANGED <<tf_waiting, tf_semaphore, tf_links, tf_tail_, tf_count,
                 tf_pos, tf_t, tf_prepared, tf_last>>

\* dequeue: while (!tail_.compare_exchange_weak(t, n)); return true, to
\* cancel_wait() from if (queue.dequeue(i)) and to the test of the do-while
\* from while (!queue.dequeue(i)); a failed exchange reloads t
TfDeqCas(c) ==
  /\ tf_pc[c] = "cas"
  /\ IF tf_tail_ = tf_t[c]
       THEN /\ tf_tail_' = tf_t[c] + 1
            /\ tf_pc' = [tf_pc EXCEPT ![c] =
                           IF tf_prepared[c] THEN "cancel" ELSE "test"]
            /\ UNCHANGED tf_t
       ELSE /\ tf_t' = [tf_t EXCEPT ![c] = tf_tail_]
            /\ tf_pc' = [tf_pc EXCEPT ![c] = "next"]
            /\ UNCHANGED tf_tail_
  /\ UNCHANGED <<tf_waiting, tf_semaphore, tf_links, tf_count, tf_i, tf_pos,
                 tf_prepared, tf_last>>

\* ec.prepare_wait(): waiting.store(true, memory_order_seq_cst)
TfPrepareWait(c) ==
  /\ tf_pc[c] = "prepare"
  /\ tf_waiting' = TRUE
  /\ tf_prepared' = [tf_prepared EXCEPT ![c] = TRUE]
  /\ tf_pc' = [tf_pc EXCEPT ![c] = "tail"]
  /\ UNCHANGED <<tf_semaphore, tf_links, tf_tail_, tf_count, tf_i, tf_pos,
                 tf_t, tf_last>>

\* ec.cancel_wait(): waiting.store(false, memory_order_release); break
TfCancelWait(c) ==
  /\ tf_pc[c] = "cancel"
  /\ tf_waiting' = FALSE
  /\ tf_prepared' = [tf_prepared EXCEPT ![c] = FALSE]
  /\ tf_pc' = [tf_pc EXCEPT ![c] = "test"]
  /\ UNCHANGED <<tf_semaphore, tf_links, tf_tail_, tf_count, tf_i, tf_pos,
                 tf_t, tf_last>>

\* ec.commit_wait(): sem_wait(&semaphore) returns, back to
\* while (!queue.dequeue(i))
TfCommitWait(c) ==
  /\ tf_pc[c] = "commit"
  /\ tf_semaphore > 0
  /\ tf_semaphore' = tf_semaphore - 1
  /\ tf_prepared' = [tf_prepared EXCEPT ![c] = FALSE]
  /\ tf_pc' = [tf_pc EXCEPT ![c] = "tail"]
  /\ UNCHANGED <<tf_waiting, tf_links, tf_tail_, tf_count, tf_i, tf_pos,
                 tf_t, tf_last>>

\* count.fetch_add(-1) != 1, on the value fetch_add returns
TfMoreToCome(old) == old # 1

\* while (i != -666 && count.fetch_add(-1) != 1); if (i != -666) with
\* i = 1 of the for loop and its test i < CONSUMERS
TfLoopTest(c) ==
  /\ tf_pc[c] = "test"
  /\ IF tf_i[c] = TfSentinel
       THEN /\ tf_pc' = [tf_pc EXCEPT ![c] = "done"]
            /\ UNCHANGED <<tf_count, tf_i, tf_last>>
       ELSE /\ tf_count' = tf_count - 1
            /\ IF TfMoreToCome(tf_count)
                 THEN /\ tf_pc' = [tf_pc EXCEPT ![c] = "tail"]
                      /\ UNCHANGED <<tf_i, tf_last>>
                 ELSE /\ tf_i' = [tf_i EXCEPT ![c] = 1]
                      /\ tf_last' = [tf_last EXCEPT ![c] = TRUE]
                      /\ tf_pc' = [tf_pc EXCEPT ![c] =
                                     IF 1 < TfConsumers
                                       THEN "exchange" ELSE "notify"]
  /\ UNCHANGED <<tf_waiting, tf_semaphore, tf_links, tf_tail_, tf_pos, tf_t,
                 tf_prepared>>

\* the other components are untouched by these steps
TfFrame ==
  UNCHANGED <<spscVars, mpscVars, mpmcVars, bqVars, wpVars, pxVars, ecVars>>

TfNext ==
  \/ TfFrame /\ \E t \in TfThreadIds : TfEnqExchange(t)
  \/ TfFrame /\ \E t \in TfThreadIds : TfEnqStore(t)
  \/ TfFrame /\ \E t \in TfThreadIds : TfNotifyLoad(t)
  \/ TfFrame /\ \E t \in TfThreadIds : TfNotifyClear(t)
  \/ TfFrame /\ \E t \in TfThreadIds : TfNotifyPost(t)
  \/ TfFrame /\ \E t \in TfThreadIds : TfDeqLoadTail(t)
  \/ TfFrame /\ \E t \in TfThreadIds : TfDeqLoadNext(t)
  \/ TfFrame /\ \E t \in TfThreadIds : TfDeqCas(t)
  \/ TfFrame /\ \E t \in TfThreadIds : TfPrepareWait(t)
  \/ TfFrame /\ \E t \in TfThreadIds : TfCancelWait(t)
  \/ TfFrame /\ \E t \in TfThreadIds : TfCommitWait(t)
  \/ TfFrame /\ \E t \in TfThreadIds : TfLoopTest(t)

\* the steps of thread t of thread_func
TfThread(t) ==
  /\ TfFrame
  /\ \/ TfEnqExchange(t) \/ TfEnqStore(t) \/ TfNotifyLoad(t)
     \/ TfNotifyClear(t) \/ TfNotifyPost(t) \/ TfDeqLoadTail(t)
     \/ TfDeqLoadNext(t) \/ TfDeqCas(t) \/ TfPrepareWait(t)
     \/ TfCancelWait(t) \/ TfCommitWait(t) \/ TfLoopTest(t)

\* ========================================================= specifications
Init ==
  /\ SpscInit /\ MpscInit /\ MpmcInit /\ BqInit
  /\ WpInit /\ PxInit /\ EcInit /\ TfInit

SpecSPSC == Init /\ [][SpscNext]_vars
SpecMPSC == Init /\ [][MpscNext]_vars
SpecMPMC == Init /\ [][MpmcNext]_vars
SpecBounded == Init /\ [][BqNext]_vars
SpecWordProxy == Init /\ [][WpNext]_vars
\* a thread inside a call keeps running
SpecWordProxyLive ==
  Init /\ [][WpNext]_vars /\ \A t \in WpThreadIds : WF_vars(WpRunning(t))
SpecSeqProxy == Init /\ [][PxNext]_vars
\* a thread inside a call keeps running
SpecSeqProxyLive ==
  Init /\ [][PxNext]_vars /\ \A t \in PxThreadIds : WF_vars(PxRunning(t))
SpecEventCount == Init /\ [][EcNext]_vars
SpecThreadFunc == Init /\ [][TfNext]_vars
\* the scheduler is fair: every thread of thread_func that can take a step
\* gets to take one; a thread inside sem_wait has none until a post
SpecThreadFuncLive ==
  Init /\ [][TfNext]_vars /\ \A t \in TfThreadIds : WF_vars(TfThread(t))
\* every thread of thread_func keeps running
SpecEventCountLive ==
  /\ Init /\ [][EcNext]_vars
  /\ \A p \in EcProducerIds : WF_vars(EcProducer(p))
  /\ WF_vars(EcConsumer)


\* =============================================================== properties
\* ---- SPSC

\* C1: the values returned by successful dequeue calls are, in order, a
\* prefix of the values passed to enqueue; and when the producer and the
\* consumer are idle with nothing linked behind tail_, every value passed
\* has been returned.
C1_SpscFifo ==
  /\ IsPrefix(spsc_deq, spsc_enq)
  /\ (spsc_ppc = "idle" /\ spsc_cpc = "idle" /\ spsc_next[spsc_tail_] = Null)
       => spsc_deq = spsc_enq

\* C1, reached: SpMaxEnq values, not all equal, went through the queue, some
\* of them in nodes taken back from the cache, and a further dequeue
\* returned false
C1_Reached ==
  /\ Len(spsc_deq) = SpMaxEnq
  /\ \E i \in 1..(SpMaxEnq - 1) : spsc_deq[i] # spsc_deq[i + 1]
  /\ spsc_nodes < SpMaxEnq + 1
  /\ spsc_cpc = "idle"
  /\ spsc_ret = "false"

\* ---- MPSC
MpscProducerOf(v) == v \div MpIters

MpscDrained ==
  /\ \A p \in MpscProducerIds : mpsc_ppc[p] = "idle" /\ mpsc_pi[p] = MpIters
  /\ mpsc_cpc = "idle"
  /\ mpsc_next[mpsc_tail_] = Null

\* C2: the values returned by successive successful dequeues are a prefix
\* of the enqueued values in the order of their exchanges on head_; so each
\* producer's values come out in that producer's order, no value comes out
\* twice, and after a full drain the returned values are exactly the
\* enqueued ones.
C2_MpscExchangeOrder ==
  /\ IsPrefix(mpsc_deq, mpsc_xchg)
  /\ \A i, j \in 1..Len(mpsc_deq) :
       /\ (i < j /\ MpscProducerOf(mpsc_deq[i]) = MpscProducerOf(mpsc_deq[j]))
            => mpsc_deq[i] < mpsc_deq[j]
       /\ i # j => mpsc_deq[i] # mpsc_deq[j]
  /\ MpscDrained =>
       /\ mpsc_deq = mpsc_xchg
       /\ MpscRange(mpsc_deq) = 0..(MpProducers * MpIters - 1)

\* C2, reached: a full drain of a run in which the producers' exchanges
\* interleaved
C2_Reached ==
  /\ MpscDrained
  /\ Len(mpsc_deq) = MpProducers * MpIters
  /\ \E i \in 1..(Len(mpsc_deq) - 1) : mpsc_deq[i] > mpsc_deq[i + 1]

\* the values dequeue can reach from node n by following next_, at most
\* fuel links
RECURSIVE MpscChain(_, _)
MpscChain(n, fuel) ==
  IF fuel = 0 \/ mpsc_next[n] = Null
    THEN <<>>
    ELSE <<mpsc_value[mpsc_next[n]]>> \o MpscChain(mpsc_next[n], fuel - 1)

\* the positions in MpscPending of the values whose producer has exchanged
\* head_ but not yet stored the link
MpscGaps ==
  {k \in 1..Len(MpscPending) :
     \E p \in MpscProducerIds :
       mpsc_ppc[p] = "link" /\ mpsc_value[mpsc_pn[p]] = MpscPending[k]}

\* C8: when dequeue finds tail_->next_ null although a returned enqueue's
\* value is pending, the oldest pending value belongs to a producer that
\* has exchanged head_ and not yet stored the link into tail_; and the
\* values reachable from tail_ are always the pending values, in exchange
\* order, up to the first one whose link is not yet stored (all of them
\* when no producer is between exchange and link).
C8_MpscHiddenWindow ==
  /\ [](MpscChain(mpsc_tail_, mpsc_nodes) =
          SubSeq(MpscPending, 1,
                 IF MpscGaps = {} THEN Len(MpscPending)
                 ELSE (CHOOSE k \in MpscGaps : \A m \in MpscGaps : k <= m) - 1))
  /\ [][(/\ mpsc_cpc = "idle"
         /\ mpsc_cpc' = "ret_false"
         /\ MpscRange(MpscPending) \cap MpscReturned # {})
        => \E p \in MpscProducerIds :
             /\ mpsc_ppc[p] = "link"
             /\ mpsc_pp[p] = mpsc_tail_
             /\ mpsc_value[mpsc_pn[p]] = MpscPending[1]
             /\ MpscPending[1] \notin MpscReturned]_vars

\* C8, reached: a dequeue returned false while a returned enqueue's value
\* was pending, and later every value was dequeued
C8_Reached ==
  /\ mpsc_hidden
  /\ MpscDrained
  /\ Len(mpsc_deq) = MpProducers * MpIters

\* ---- unbounded MPMC

\* C3: the k-th successful CAS on tail_ takes the k-th node in the order of
\* the exchanges on head_ and returns that node's value; no node is taken
\* twice; a consumer whose call returned true holds the value of the node
\* its own CAS took.
C3_MpmcLinearisable ==
  /\ Len(mpmc_won) <= Len(mpmc_xchg)
  /\ \A k \in 1..Len(mpmc_won) :
       k <= Len(mpmc_xchg) =>
         /\ mpmc_won[k].node = mpmc_xchg[k]
         /\ mpmc_won[k].value = mpmc_value[mpmc_xchg[k]]
  /\ \A j, k \in 1..Len(mpmc_won) :
       j # k => mpmc_won[j].node # mpmc_won[k].node
  /\ \A c \in MpmcConsumerIds :
       (mpmc_cpc[c] = "idle" /\ mpmc_ret[c] = "true") =>
         \E k \in 1..Len(mpmc_won) :
           /\ mpmc_won[k].node = mpmc_cn[c]
           /\ mpmc_won[k].value = mpmc_out[c]
           /\ mpmc_out[c] = mpmc_value[mpmc_cn[c]]

\* C3, reached: every enqueued node was taken, by two different consumers,
\* and the nodes were not linked in the order of their exchanges
C3_Reached ==
  /\ Len(mpmc_won) = MqMaxEnq
  /\ \E c, d \in MpmcConsumerIds :
       /\ c # d
       /\ mpmc_cpc[c] = "idle" /\ mpmc_ret[c] = "true"
       /\ mpmc_cpc[d] = "idle" /\ mpmc_ret[d] = "true"
       /\ mpmc_out[c] # mpmc_out[d]

\* C9: every dequeue call holds a collector reference while it runs, and
\* every node a successful tail CAS retired has been posted to the
\* collector as deferred-free.
C9_DequeueUsesCollector ==
  /\ \A c \in MpmcConsumerIds : mpmc_cpc[c] # "idle" => mpmc_pinned[c]
  /\ mpmc_retired \subseteq mpmc_posted

\* C10: a dequeue call that returned false left the caller's variable as
\* it was when the call began.
C10_FalseKeepsOut ==
  \A c \in MpmcConsumerIds :
    (mpmc_cpc[c] = "idle" /\ mpmc_ret[c] = "false")
      => mpmc_out[c] = mpmc_out0[c]

\* ---- bounded MPMC
BqDrained ==
  /\ \A t \in BqThreadIds : bq_pc[t] = "idle"
  /\ enqueue_pos_ = dequeue_pos_

\* C4: enqueue tickets and dequeue tickets are each won once, in order;
\* the dequeue of ticket k returns the value the enqueue of ticket k
\* stored; no value is returned twice; after a full drain every ticket's
\* value has been returned.
C4_BoundedTicketOrder ==
  /\ \A k \in 1..Len(bq_enq) : bq_enq[k].pos = k - 1
  /\ \A k \in 1..Len(bq_taken) : bq_taken[k] = k - 1
  /\ Len(bq_taken) <= Len(bq_enq)
  /\ \A r \in bq_deq :
       /\ r.pos < Len(bq_taken)
       /\ r.pos < Len(bq_enq) => r.value = bq_enq[r.pos + 1].value
  /\ \A q, r \in bq_deq : (q.pos = r.pos \/ q.value = r.value) => q = r
  /\ BqDrained => {r.pos : r \in bq_deq} = 0..(Len(bq_enq) - 1)

\* C4, reached: more values than the buffer has cells went through the
\* queue and it was drained
C4_Reached ==
  /\ BqDrained
  /\ Len(bq_enq) = BqMaxEnq
  /\ Cardinality(bq_deq) = BqMaxEnq

\* C5: enqueue_pos_ - dequeue_pos_ stays within 0..buffer_size; an enqueue
\* invoked with buffer_size items pending and no dequeue in progress never
\* gets to its CAS, changes neither position nor any cell, and returns
\* false.
C5_BoundedCapacity ==
  /\ [](/\ 0 <= enqueue_pos_ - dequeue_pos_
        /\ enqueue_pos_ - dequeue_pos_ <= buffer_size
        /\ \A t \in BqThreadIds :
             bq_quiet[t] =>
               \/ bq_pc[t] = "enq_seq"
               \/ bq_pc[t] = "idle" /\ bq_ret[t] = "enq_false")
  /\ [][\A t \in BqThreadIds :
          (bq_pc'[t] # bq_pc[t] /\ bq_quiet'[t])
            => UNCHANGED <<enqueue_pos_, dequeue_pos_, bq_sequence,
                           bq_data>>]_vars

\* C5, reached: an enqueue invoked on a full queue with no dequeue in
\* progress has returned false
C5_Reached ==
  \E t \in BqThreadIds :
    /\ bq_quiet[t]
    /\ bq_pc[t] = "idle"
    /\ bq_ret[t] = "enq_false"
    /\ enqueue_pos_ - dequeue_pos_ = buffer_size

\* C6 as stated: an enqueue call that returned false saw, at some moment
\* of the call, enqueue_pos_ - dequeue_pos_ = buffer_size.
C6_FalseOnlyWhenFull ==
  \A t \in BqThreadIds :
    (bq_pc[t] = "idle" /\ bq_ret[t] = "enq_false") => bq_seen[t]

\* C6: when enqueue returns false, at the sequence_ load that decides it
\* enqueue_pos_ is buffer_size ahead of the oldest dequeue ticket whose
\* cell has not been released by its sequence_ store.
C6_FalseOnlyWhenUnreleased ==
  [][\A t \in BqThreadIds :
       (bq_pc[t] = "enq_seq" /\ bq_pc'[t] = "idle")
         => /\ enqueue_pos_ - BqDeqReleased = buffer_size
            /\ bq_pos[t] = enqueue_pos_]_vars

\* C6, reached: an enqueue returned false although enqueue_pos_ -
\* dequeue_pos_ was below buffer_size throughout the call, a dequeue being
\* between its CAS and its sequence_ store
C6_Reached ==
  \E t \in BqThreadIds :
    /\ bq_pc[t] = "idle"
    /\ bq_ret[t] = "enq_false"
    /\ ~bq_seen[t]
    /\ \E u \in BqThreadIds : bq_pc[u] \in {"deq_read", "deq_release"}

\* C7 as stated: a dequeue call that returned false saw, at some moment of
\* the call, enqueue_pos_ - dequeue_pos_ = 0.
C7_FalseOnlyWhenEmpty ==
  \A t \in BqThreadIds :
    (bq_pc[t] = "idle" /\ bq_ret[t] = "deq_false") => bq_seen[t]

\* C7: when dequeue returns false, at the sequence_ load that decides it
\* dequeue_pos_ equals the oldest enqueue ticket whose cell has not been
\* published by its sequence_ store.
C7_FalseOnlyWhenUnpublished ==
  [][\A t \in BqThreadIds :
       (bq_pc[t] = "deq_seq" /\ bq_pc'[t] = "idle")
         => /\ BqEnqPublished - dequeue_pos_ = 0
            /\ bq_pos[t] = dequeue_pos_]_vars

\* C7, reached: a dequeue returned false although enqueue_pos_ -
\* dequeue_pos_ was above 0 throughout the call, an enqueue being between
\* its CAS and its sequence_ store
C7_Reached ==
  \E t \in BqThreadIds :
    /\ bq_pc[t] = "idle"
    /\ bq_ret[t] = "deq_false"
    /\ ~bq_seen[t]
    /\ \E u \in BqThreadIds : bq_pc[u] \in {"enq_write", "enq_publish"}

\* ------------------------------------------------ word-based proxy collector

\* the nodes a quiescence or a destructor deletes in this step
WpDeletedNow == {n \in WpNodeIds : wp_deleted'[n] > wp_deleted[n]}

\* C11: a node handed to collect(c, n) is not deleted while a reader that
\* acquired before that collect is still pinned, and a quiescence deletes no
\* node that went to the collector of a pinned reader or to a later one
C11_ReadersOutliveNoNode ==
  [][\A n \in WpDeletedNow :
       /\ wp_guard[n] = {}
       /\ \A t \in WpThreadIds : wp_pinned[t] => wp_nlag[n] > wp_lag[t]]_vars

\* C11 witness: a node whose collector has completed waits on the proxy's
\* back link because a reader pinned before its collect has not released,
\* while a quiescence has already deleted another node
C11_Reached ==
  /\ \E n \in WpList(wp_defer_, WpMaxNodes) :
       \E t \in wp_guard[n] : wp_pinned[t] /\ wp_lag[t] < wp_nlag[n]
  /\ \E m \in WpNodeIds : wp_by[m] = "quiesce"

\* the nodes handed to collect(c, n) so far
WpPosted == {n \in WpNodeIds : n <= wp_nodes}

\* C12: every node handed to collect(c, n) is deleted exactly once: never
\* twice, never through a defer_next_ that was not yet written, and once the
\* proxy and its collectors are destroyed no such node is left undeleted
C12_DeletedExactlyOnce ==
  /\ \A n \in WpNodeIds : wp_deleted[n] <= 1
  /\ ~wp_wild
  /\ ~wp_alive => \A n \in WpPosted : wp_deleted[n] = 1

\* C12 witness: the proxy is destroyed after quiescences deleted one node and
\* the destructors another
C12_Reached ==
  /\ ~wp_alive
  /\ \E n \in WpPosted : wp_by[n] = "quiesce"
  /\ \E n \in WpPosted : wp_by[n] = "destructor"

\* every reader that acquires releases again
WpReadersRelease == \A t \in WpThreadIds : []<>(~wp_pinned[t])

\* every node handed to collect(c, n) ends up deleted by a quiescence
WpAllQuiesced ==
  \A n \in WpNodeIds : [](n \in WpPosted => <>(wp_by[n] = "quiesce"))

\* C13 as stated: if every reader that acquired releases, every node deferred
\* with collect(c, n) is eventually deleted by a quiescence, the proxy alive
C13_ReleasedMeansQuiesced == WpReadersRelease => WpAllQuiesced

\* C13: if every reader that acquired releases and quiescences keep being
\* begun (quiesce_ is set again and again), every node deferred with
\* collect(c, n) is eventually deleted by a quiescence, the proxy alive
C13_QuiescedWhenBegun ==
  (WpReadersRelease /\ []<>wp_quiesce_) => WpAllQuiesced

\* C13 witness: a quiescence deletes a node while the proxy is alive, after
\* the collector the node went to and the one after it were both left behind
C13_Reached ==
  /\ wp_alive
  /\ \E n \in WpPosted : wp_by[n] = "quiesce" /\ wp_nlag[n] >= 2

\* --------------------------------------------- sequence-based proxy collector

\* C14: a callback passed to defer_recycle is invoked only when every reader
\* that acquired before the callback's tail swap has released, and callbacks
\* are invoked in the order of their tail swaps
C14_CallbackAfterReaders ==
  /\ \A f \in PxCallbackIds : px_invoked[f] > 0 => px_guard[f] = {}
  /\ IsPrefix(px_order, px_swaps)

\* C14 witness: the first callback swapped in has been invoked while the next
\* one is still held back by a reader that has not released
C14_Reached ==
  /\ Len(px_swaps) >= 2
  /\ px_invoked[px_swaps[1]] = 1
  /\ px_guard[px_swaps[2]] # {}
  /\ \E t \in PxThreadIds : px_held[t] # Null /\ px_pc[t] = "idle"

\* C15: every callback is invoked at most once, and the callback stored in a
\* collector has been invoked exactly once when that collector has dropped
\* to zero, collectors taken from the free list included
C15_CallbackOnce ==
  /\ \A f \in PxCallbackIds : px_invoked[f] <= 1
  /\ \A c \in px_zero : px_cb[c] # Null => px_invoked[px_cb[c]] = 1

\* C15 witness: a collector taken from the free list by a later
\* defer_recycle has dropped to zero again with its callback invoked
C15_Reached ==
  \E c \in px_zero \cap px_reused :
    px_cb[c] # Null /\ px_invoked[px_cb[c]] = 1

\* the collectors alloc_collector can take: from free_head_ along next_ up
\* to, not including, free_tail_
RECURSIVE PxFreeList(_, _)
PxFreeList(c, fuel) ==
  IF c = Null \/ c = px_free_tail_ \/ fuel = 0 THEN {}
  ELSE {c} \cup PxFreeList(px_next_[c], fuel - 1)

\* every acquire is matched by a release
PxReadersRelease == \A t \in PxThreadIds : []<>(px_held[t] = Null)

\* every callback passed so far has been invoked and every collector that
\* dropped to zero and was not taken again is on the free list
PxSettled ==
  /\ \A f \in PxCallbackIds : f <= px_started => px_invoked[f] = 1
  /\ px_zero \subseteq PxFreeList(px_free_head_.c_, PxMaxDefer + 1)

\* C16: if every acquire is matched by a release, then, the calls begun
\* running to their end and no further call being needed, every callback
\* passed to defer_recycle ends up invoked and every collector that dropped
\* to zero ends up on the free list
C16_CallbacksRun == PxReadersRelease => []<>PxSettled

\* C16 witness: every callback has been invoked, every thread is outside any
\* call, and a collector that dropped to zero is on the free list after
\* another one was taken from it
C16_Reached ==
  /\ px_started = PxMaxDefer
  /\ \A f \in PxCallbackIds : px_invoked[f] = 1
  /\ \A t \in PxThreadIds : px_pc[t] = "idle" /\ px_held[t] = Null
  /\ px_reused # {}
  /\ px_zero \cap PxFreeList(px_free_head_.c_, PxMaxDefer + 1) # {}

\* ---------------------------------------------------------------- eventcount

\* C17: no lost wake-up: when the consumer is in commit_wait and the item
\* it waits for has been enqueued by a producer that goes on to notify(),
\* the consumer leaves commit_wait, also with producers racing in notify()
\* and with posts left over from cancelled waits
C17_NoLostWakeup ==
  []((ec_cpc = "commit" /\ EcFunc(ec_links, ec_count))
       => <>(ec_cpc # "commit"))

\* C17 witness: the consumer is in commit_wait with the item enqueued, the
\* semaphore at 0, and both producers inside notify() past its load
C17_Reached ==
  /\ ec_cpc = "commit"
  /\ EcFunc(ec_links, ec_count)
  /\ ec_semaphore = 0
  /\ \A p \in EcProducerIds : ec_ppc[p] \in {"clear", "post"}

\* ---- SPSC: dequeue's result, the node cache, allocation

\* C18: dequeue returns false exactly when tail_->next_ is null; a dequeue
\* that returns false leaves tail_ and the caller's variable as they were; a
\* dequeue that returns true has moved tail_ on by exactly one node, the one
\* it found linked behind tail_ and whose value it copied
C18_DequeueResult ==
  /\ [](spsc_cpc # "idle" =>
          /\ spsc_ctail = spsc_tail_
          /\ spsc_cnext # Null
          /\ spsc_cnext = spsc_next[spsc_tail_])
  /\ [][/\ SpscDeqLoad =>
             /\ (spsc_cpc' = "idle") <=> (spsc_next[spsc_tail_] = Null)
             /\ spsc_cpc' = "idle" =>
                  /\ spsc_ret' = "false"
                  /\ spsc_tail_' = spsc_tail_
                  /\ spsc_out' = spsc_out
        /\ SpscDeqStore =>
             /\ spsc_ret' = "true"
             /\ spsc_tail_' = spsc_next[spsc_tail_]
             /\ spsc_tail_' \notin {Null, spsc_tail_}]_vars

\* C18 witness: dequeues returned true, some from nodes the producer had
\* taken back from the cache, and the dequeue after them returned false with
\* the caller's variable still holding the last value returned
C18_Reached ==
  /\ spsc_cpc = "idle"
  /\ spsc_ret = "false"
  /\ Len(spsc_deq) >= 2
  /\ spsc_nodes <= Len(spsc_deq)
  /\ spsc_out = spsc_deq[Len(spsc_deq)]
  /\ spsc_out # 0

\* the nodes from n on along next_, in list order
RECURSIVE SpscChain(_, _)
SpscChain(n, fuel) ==
  IF n = Null \/ fuel = 0 THEN <<>>
  ELSE <<n>> \o SpscChain(spsc_next[n], fuel - 1)

\* the place of node n in the list that starts at first_; 0 if it is not in
\* that list
SpscPlace(n) ==
  LET chain == SpscChain(spsc_first_, SpMaxEnq + 1)
  IN  IF \E i \in 1..Len(chain) : chain[i] = n
        THEN CHOOSE i \in 1..Len(chain) : chain[i] = n
        ELSE 0

\* first_ <= tail_copy_ <= tail_ <= head_ in list order, head_ last
SpscOrdered ==
  /\ SpscPlace(spsc_first_) = 1
  /\ SpscPlace(spsc_first_) <= SpscPlace(spsc_tail_copy_)
  /\ SpscPlace(spsc_tail_copy_) <= SpscPlace(spsc_tail_)
  /\ SpscPlace(spsc_tail_) <= SpscPlace(spsc_head_)
  /\ SpscPlace(spsc_head_) = Len(SpscChain(spsc_first_, SpMaxEnq + 1))

\* alloc_node takes the node first_ back from the cache in this step
SpscReusing == SpscAllocCached \/ SpscAllocReloaded

SpscListed ==
  LET chain == SpscChain(spsc_first_, SpMaxEnq + 1)
  IN  {chain[i] : i \in 1..Len(chain)}

\* C20: enqueue takes a node from the heap only when the tail_ it reloaded
\* was first_, no retired node being there; every node ever allocated is
\* still in the list or in the producer's hands, none dropped from it; and
\* the nodes allocated never exceed 1 + the most enqueue calls begun
\* beyond the successful dequeues finished, over time
C20_AllocationBound ==
  /\ [](/\ spsc_nodes <= 1 + spsc_peak
        /\ SpscListed \cup (IF spsc_ppc \in {"clear", "link"}
                              THEN {spsc_pn} ELSE {}) = 1..spsc_nodes)
  /\ [][/\ SpscAllocReload => spsc_tail_copy_' = spsc_tail_
        /\ spsc_nodes' # spsc_nodes =>
             /\ spsc_nodes' = spsc_nodes + 1
             /\ spsc_ppc = "alloc2"
             /\ spsc_first_ = spsc_tail_copy_]_vars

\* C20 witness: after a dequeue and an enqueue that took a node back from
\* the cache, an enqueue has taken a node from the heap, the nodes allocated
\* being 1 + the most calls outstanding
C20_Reached ==
  /\ spsc_ppc = "clear"
  /\ spsc_pn = spsc_nodes
  /\ spsc_nodes = 1 + spsc_peak
  /\ spsc_peak >= 2
  /\ Len(spsc_enq) > spsc_peak

\* ---- MPSC: node lifetime
\* C21: over the queue's whole life every node the queue ever owned, the
\* stub and each node allocated by enqueue, is released exactly once: no
\* node is released twice, and once the destructor has run on a drained
\* queue no node is left unreleased.
C21_ReleasedExactlyOnce ==
  /\ \A n \in MpscNodeIds : mpsc_freed[n] <= 1
  /\ ~mpsc_alive => \A n \in 1..mpsc_nodes : mpsc_freed[n] = 1

\* ---- SPSC: the destructor

\* C22: whenever no enqueue or dequeue is in progress, the walk from first_
\* along next_ ends at a null link after visiting every node the queue ever
\* allocated exactly once; delete is applied to no node twice; and when the
\* destructor's loop has ended, every node ever allocated has been deleted
\* exactly once and no other
C22_DestructorFreesAll ==
  /\ (spsc_ppc = "idle" /\ spsc_cpc = "idle") =>
       LET chain == SpscChain(spsc_first_, SpMaxEnq + 2)
       IN  /\ Len(chain) = spsc_nodes
           /\ {chain[i] : i \in 1..Len(chain)} = 1..spsc_nodes
  /\ \A n \in SpscNodeIds : spsc_deleted[n] <= 1
  /\ (~spsc_alive /\ spsc_dn = Null) =>
       \A n \in SpscNodeIds :
         spsc_deleted[n] = (IF n <= spsc_nodes THEN 1 ELSE 0)

\* C22 witness: the destructor's loop has ended on a queue that still held
\* a value, had a retired node in its cache and had taken nodes back from
\* the cache before
C22_Reached ==
  /\ ~spsc_alive
  /\ spsc_dn = Null
  /\ spsc_tail_ # spsc_head_
  /\ spsc_first_ # spsc_tail_
  /\ spsc_nodes >= 3
  /\ spsc_nodes < Len(spsc_enq) + 1

\* ---- bounded MPMC: cell ownership, steady state

\* the threads whose enqueue has won its CAS and not yet stored sequence_
BqWriters == {t \in BqThreadIds : bq_pc[t] \in {"enq_write", "enq_publish"}}

\* the threads whose dequeue has won its CAS and not yet stored sequence_
BqReaders == {t \in BqThreadIds : bq_pc[t] \in {"deq_read", "deq_release"}}

\* C24: when an enqueue's CAS moving enqueue_pos_ from pos to pos + 1
\* succeeds, cell pos & mask has sequence_ == pos, and keeps it until that
\* enqueue stores pos + 1; no two enqueues between their CAS and their
\* store hold the same cell; and the cell such an enqueue holds is not
\* being read by a dequeue, the item of ticket pos - buffer_size that it
\* held before having been copied out by a dequeue that returned
C24_CellOwnership ==
  /\ [](/\ \A t \in BqWriters :
             /\ bq_sequence[BqAnd(bq_pos[t], buffer_mask_)] = bq_pos[t]
             /\ \A u \in BqWriters \ {t} :
                  BqAnd(bq_pos[u], buffer_mask_)
                    # BqAnd(bq_pos[t], buffer_mask_)
             /\ \A u \in BqReaders :
                  BqAnd(bq_pos[u], buffer_mask_)
                    # BqAnd(bq_pos[t], buffer_mask_)
             /\ bq_pos[t] >= buffer_size =>
                  \E r \in bq_deq : r.pos = bq_pos[t] - buffer_size)
  /\ [][\A t \in BqThreadIds :
          BqEnqCasWin(t) =>
            /\ bq_sequence[BqAnd(bq_pos[t], buffer_mask_)] = bq_pos[t]
            /\ bq_sequence'[BqAnd(bq_pos[t], buffer_mask_)] = bq_pos[t]
            /\ enqueue_pos_ = bq_pos[t]
            /\ enqueue_pos_' = bq_pos[t] + 1]_vars

\* C24 witness: two enqueues are between their CAS and their store, one of
\* them on a cell whose earlier item a dequeue has copied out
C24_Reached ==
  \E t, u \in BqWriters :
    /\ t # u
    /\ bq_pos[t] >= buffer_size
    /\ bq_pc[t] = "enq_publish"
    /\ bq_data[BqAnd(bq_pos[t], buffer_mask_)] = bq_arg[t]

\* no enqueue or dequeue call is in progress
BqIdle == \A t \in BqThreadIds : bq_pc[t] = "idle"

\* C25 as stated: with no operation in progress, the cell the next dequeue
\* inspects has sequence_ == dequeue_pos_ when the queue is empty, and the
\* cell the next enqueue inspects has sequence_ == enqueue_pos_ +
\* buffer_size when the queue is full
C25_SteadyStateFullAhead ==
  BqIdle =>
    /\ enqueue_pos_ = dequeue_pos_ =>
         bq_sequence[BqAnd(dequeue_pos_, buffer_mask_)] = dequeue_pos_
    /\ enqueue_pos_ - dequeue_pos_ = buffer_size =>
         bq_sequence[BqAnd(enqueue_pos_, buffer_mask_)]
           = enqueue_pos_ + buffer_size

\* C25, amended: with no operation in progress, the cell the next dequeue
\* inspects has sequence_ == dequeue_pos_ when the queue is empty; when the
\* queue is full the cell the next enqueue inspects still holds the oldest
\* item and has sequence_ == dequeue_pos_ + 1, which is enqueue_pos_ -
\* buffer_size + 1, so that enqueue computes dif < 0
C25_SteadyState ==
  BqIdle =>
    /\ enqueue_pos_ = dequeue_pos_ =>
         bq_sequence[BqAnd(dequeue_pos_, buffer_mask_)] = dequeue_pos_
    /\ enqueue_pos_ - dequeue_pos_ = buffer_size =>
         /\ bq_sequence[BqAnd(enqueue_pos_, buffer_mask_)]
              = enqueue_pos_ - buffer_size + 1
         /\ bq_sequence[BqAnd(enqueue_pos_, buffer_mask_)] = dequeue_pos_ + 1
         /\ BqEnqFull(BqEnqDif(bq_sequence[BqAnd(enqueue_pos_, buffer_mask_)],
                               enqueue_pos_))

\* C25 witness: no operation in progress and the queue full again after a
\* dequeue had freed a cell and an enqueue has filled it
C25_Reached ==
  /\ BqIdle
  /\ enqueue_pos_ - dequeue_pos_ = buffer_size
  /\ dequeue_pos_ > 0
  /\ \E t \in BqThreadIds : bq_ret[t] = "deq_true"
  /\ \E t \in BqThreadIds : bq_ret[t] = "enq_true"

\* ---- word-based proxy collector: one quiescence at a time

\* the threads between winning quiesce_ in prv_quiesce_begin, or entering
\* prv_quiesce_complete, and the store of false to quiesce_
WpInside ==
  {t \in WpThreadIds : wp_pc[t] \in {"advance", "add", "complete", "unlock"}}

\* the collectors whose count_ has the 0x10 bit set
WpQuiescing == {i \in WpCollectorIds : WpOdd(wp_count_[i])}

\* C26: at most one quiescence is in flight: at most one thread is between
\* winning quiesce_ (or entering prv_quiesce_complete) and the store of
\* false to quiesce_, and quiesce_ is set all that time; at most one
\* collector has the 0x10 bit set in its count_, and only while quiesce_ is
\* set; the index in current_ is changed only by the thread that won
\* quiesce_; so the part of prv_quiesce_complete that reads and writes the
\* shared defer_ is never run by two threads at once
C26_OneQuiescence ==
  /\ [](/\ Cardinality(WpInside) <= 1
        /\ WpInside # {} => wp_quiesce_
        /\ Cardinality(WpQuiescing) <= 1
        /\ WpQuiescing # {} => wp_quiesce_
        /\ \A t \in WpThreadIds :
             wp_pc[t] \in {"complete", "unlock"} =>
               WpQuiescing \subseteq {wp_q[t]})
  /\ [][WpIndex(wp_current_') # WpIndex(wp_current_) =>
          /\ wp_quiesce_
          /\ \E t \in WpInside : wp_pc[t] = "advance" /\ wp_pc'[t] = "add"]_vars

\* C26 witness: a thread that has stored false to quiesce_ is still
\* destroying the list it detached while another thread, having won
\* quiesce_ for the next quiescence, is inside prv_quiesce_complete
C26_Reached ==
  \E t, u \in WpThreadIds :
    /\ wp_pc[t] = "destroy"
    /\ wp_n[t] # Null
    /\ wp_pc[u] = "complete"
    /\ wp_quiesce_

\* ---- word-based proxy collector: the order of a completion's steps

\* C27 as stated: when prv_quiesce_complete stores false to quiesce_, the
\* previous list has been detached, the collector's list is the new
\* previous list, and every node of the detached list has been destroyed
C27_FlagReleasedLast ==
  [][\A t \in WpThreadIds :
       WpCompleteUnlock(t) =>
         /\ wp_cdefer_[wp_q[t]] = Null
         /\ WpList(wp_n[t], WpMaxNodes) \cap WpList(wp_defer_, WpMaxNodes) = {}
         /\ \A n \in WpList(wp_n[t], WpMaxNodes) : wp_deleted[n] = 1]_vars

\* C27, amended: when prv_quiesce_complete stores false to quiesce_, the
\* previous list has been detached into the local n, the collector's list
\* is the new previous list, the collector's defer_ is null and its count_
\* and defer_count_ are 0; the nodes of the detached list are not destroyed
\* yet: prv_destroy(n) runs after the store, and deletes exactly them
C27_FlagReleasedBeforeDestroy ==
  [][\A t \in WpThreadIds :
       /\ WpCompleteUnlock(t) =>
            /\ wp_quiesce_ /\ ~wp_quiesce_'
            /\ wp_cdefer_[wp_q[t]] = Null
            /\ wp_count_[wp_q[t]] = 0
            /\ wp_defer_count_[wp_q[t]] = 0
            /\ WpList(wp_n[t], WpMaxNodes)
                 \cap WpList(wp_defer_, WpMaxNodes) = {}
            /\ \A n \in WpList(wp_n[t], WpMaxNodes) : wp_deleted[n] = 0
            /\ wp_deleted' = wp_deleted
       /\ WpComplete(t) =>
            /\ wp_quiesce_ /\ wp_quiesce_'
            /\ wp_n'[t] = wp_defer_
            /\ wp_defer_' = wp_cdefer_[wp_q[t]]
       /\ WpDestroy(t) =>
            WpDeletedNow = WpList(wp_n[t], WpMaxNodes)]_vars

\* C27 witness: quiesce_ is false again, no thread having taken it since,
\* while the thread that stored false still holds a detached list of two
\* undeleted nodes
C27_Reached ==
  \E t \in WpThreadIds :
    /\ wp_pc[t] = "destroy"
    /\ ~wp_quiesce_
    /\ Cardinality(WpList(wp_n[t], WpMaxNodes)) >= 2
    /\ \A n \in WpList(wp_n[t], WpMaxNodes) : wp_deleted[n] = 0

\* ---- word-based proxy collector: two-stage reclamation

\* C28: the completion of collector c deletes no node handed to c since c's
\* previous completion: it makes c's list the proxy's defer_ list and
\* detaches only the list that was there; and a quiescence deletes a node
\* only after the completion of the collector the node was handed to and
\* the list swap of a later completion
C28_TwoStage ==
  [][/\ \A t \in WpThreadIds :
          WpComplete(t) =>
            LET fresh == WpList(wp_cdefer_[wp_q[t]], WpMaxNodes)
            IN  /\ wp_defer_' = wp_cdefer_[wp_q[t]]
                /\ fresh \cap WpList(wp_n'[t], WpMaxNodes) = {}
                /\ \A n \in fresh : wp_stage[n] = 0 /\ wp_stage'[n] = 1
                /\ \A n \in WpPosted :
                     (wp_stage[n] = 0 /\ wp_deleted[n] = 0
                        /\ wp_home[n] = wp_q[t]) => n \in fresh
     /\ \A t \in WpThreadIds :
          WpDestroy(t) =>
            \A n \in WpDeletedNow : wp_stage[n] = 2 /\ wp_nlag[n] >= 2]_vars

\* C28 witness: a completion is deleting a node handed to an earlier
\* collector while a node handed to the collector it completed waits on the
\* proxy's defer_ list
C28_Reached ==
  \E t \in WpThreadIds :
    /\ wp_pc[t] = "destroy"
    /\ wp_quiesce_
    /\ \E n \in WpList(wp_n[t], WpMaxNodes) : wp_stage[n] = 2
    /\ \E m \in WpList(wp_defer_, WpMaxNodes) :
         wp_stage[m] = 1 /\ wp_deleted[m] = 0

\* ---- word-based proxy collector: the two assertions

\* C29: every release matching an earlier acquire on the same collector,
\* both assertions hold: in prv_quiesce_begin the word exchanged out of
\* current_ has the 0x10 bit clear and its low four bits are the index of a
\* collector of the array, the one that was current; and whenever
\* prv_quiesce_complete(c) runs, c.count_ is 0x10 exactly
C29_AssertsHold ==
  /\ [](/\ \A t \in WpThreadIds :
             wp_pc[t] = "add" =>
               /\ ~WpOdd(wp_old[t])
               /\ WpRefs(wp_old[t]) >= 0
               /\ WpIndex(wp_old[t]) \in WpCollectorIds
        /\ \A t \in WpThreadIds :
             wp_pc[t] = "complete" => wp_count_[wp_q[t]] = 16)
  /\ [][\A t \in WpThreadIds :
          WpBeginAdvance(t) =>
            /\ wp_old'[t] = wp_current_
            /\ WpIndex(wp_current_') # WpIndex(wp_old'[t])]_vars

\* C29 witness: prv_quiesce_begin is about to add to the count_ of a
\* collector that every reader counted in the exchanged word has already
\* released, the count_ being minus the references
C29_Reached ==
  \E t \in WpThreadIds :
    /\ wp_pc[t] = "add"
    /\ WpRefs(wp_old[t]) = 32 * WpMaxRefs
    /\ wp_count_[WpIndex(wp_old[t])] = 0 - WpRefs(wp_old[t])


\* ---- unbounded MPMC: thread_func
\* the consumers of thread_func
TfConsumerIds == {t \in TfThreadIds : ~TfIsProducer(t)}

\* every thread has left thread_func
TfAllExited == \A t \in TfThreadIds : tf_pc[t] = "done"

\* C23: under fair scheduling every thread of the unbounded MPMC scenario
\* eventually exits, exactly one consumer having found that the last of the
\* PRODUCERS * ITERS items was dequeued (its fetch_add returned 1) and
\* enqueued the CONSUMERS - 1 sentinels the other consumers leave on.
C23_EveryThreadExits ==
  <>(/\ TfAllExited
     /\ Cardinality({c \in TfConsumerIds : tf_last[c]}) = 1)

\* what the code does instead: count starts at 0 and only goes down, so no
\* fetch_add returns 1, no sentinel is enqueued and no consumer leaves
TfNoConsumerExits ==
  /\ tf_count <= 0
  /\ \A c \in TfConsumerIds :
       /\ ~tf_last[c]
       /\ tf_pc[c] \in {"tail", "next", "cas", "prepare", "cancel",
                        "commit", "test"}
  /\ \A k \in 1..Len(tf_links) : tf_links[k].value # TfSentinel

\* all items are dequeued, the producers are gone and every consumer is
\* inside sem_wait with nothing left to post
TfStuck ==
  /\ \A t \in TfThreadIds : TfIsProducer(t) => tf_pc[t] = "done"
  /\ tf_tail_ = TfProducers * TfIters
  /\ tf_semaphore = 0
  /\ \A c \in TfConsumerIds : tf_pc[c] = "commit"

====
